---------------------------- MODULE Spec2Model ----------------------------
(***************************************************************************)
(* Model of the Blueye autonomous docking software.                        *)
(*                                                                         *)
(*   Spec       DroneManager.run_mission (src/drone.py) driven by its      *)
(*              caller (MissionWorker.run / MissionManager.execute_mission)*)
(*              with the GUI thread's MissionWorker.stop running beside it.*)
(*   FairSpec   Spec with weak fairness of the thread that executes        *)
(*              run_mission (a blocking, single-threaded call).            *)
(*   SpecUsbl   one USBL fix acquisition: get_usbl_data (src/src/main.py)  *)
(*              over USBLReader (src/src/utils.py).                        *)
(*   SpecNav    MissionManager.build_mission (src/src/mission.py) over the *)
(*              strategies of src/src/navigation.py.                       *)
(*   SpecRebuild  build_mission called repeatedly on one manager, with     *)
(*              arguments that change between the calls.                   *)
(*   SpecLog    the logging operations of one MissionManager, called in    *)
(*              any order.                                                 *)
(*                                                                         *)
(* The vehicle (blueye.sdk Drone) is an opaque collaborator: each of its   *)
(* operations either returns or raises, and get_status returns any mission *)
(* state.                                                                  *)
(***************************************************************************)
EXTENDS Integers, Sequences, FiniteSets

(***************************************************************************)
(* Bounds of the model.                                                    *)
(***************************************************************************)
\* largest max_duration (seconds) a call is given
MaxDuration == 4
\* largest time (seconds) by which a sleep overshoots its argument
MaxLag == 1
\* cap on the number of status polls one call records (never reached while
\* the timeout check works: see PollCapUnreached)
MaxPolls == 4
\* largest num_samples a fix acquisition is asked for
MaxSamples == 3
\* largest read_data timeout, in tenths of a second
MaxReadTimeout == 3
\* deepest target (meters) a mission is built for
MaxDepth == 8
\* largest config.APPROACH_DEPTH_OFFSET (meters)
MaxOffset == 3
\* largest speed and acceptance radius of a parameter set
MaxParam == 2
\* largest latitude and longitude of a position
MaxCoord == 1
\* cap on the number of entries of one run log
MaxEntries == 3
\* last second of the logging clock
MaxClock == 1
\* cap on the number of log files in mission_logs
MaxFiles == 2

\* the origins converted lie at 0..MaxDegrees whole degrees
MaxDegrees == 12

\* the missions started from one GUI
MaxRuns == 2

\* the offsets of a fix lie in 0..MaxFix metres
MaxFix == 3

(***************************************************************************)
(* Program constants.                                                      *)
(***************************************************************************)
\* time.sleep(1) after mission.clear()
ClearSleep == 1
\* time.sleep(1) after mission.send_new()
SendSleep == 1
\* time.sleep(2) at the end of a poll iteration
PollSleep == 2

\* the 5.0 of max(5.0, ...) in ThreeStageNavigation.create_mission
ApproachFloor == 5
\* the 5.0 of min(approach_depth, 5.0)
InitialCap == 5
\* the marker byte b'E'
Marker == 69

READY == "MISSION_STATE_READY"
RUNNING == "MISSION_STATE_RUNNING"
COMPLETED == "MISSION_STATE_COMPLETED"
ABORTED == "MISSION_STATE_ABORTED"
FAILED_TO_LOAD == "MISSION_STATE_FAILED_TO_LOAD_MISSION"
FAILED_TO_START == "MISSION_STATE_FAILED_TO_START_MISSION"

\* the mission states the source names
MissionState ==
    {READY, RUNNING, COMPLETED, ABORTED, FAILED_TO_LOAD, FAILED_TO_START}

\* get_telemetry returns None or a telemetry dict
None == "None"
TelemetryValues == {"telemetry_a", "telemetry_b"}

VARIABLES
    connected,      \* DroneManager.connected (and DroneManager.drone set)
    is_running,     \* MissionWorker.is_running
    pc,             \* where the thread executing run_mission stands
    now,            \* time.time()
    start_time,     \* run_mission's start_time
    max_duration,   \* run_mission's max_duration argument
    telemetry_callback,  \* run_mission's telemetry_callback argument
    vehicle,        \* the state the vehicle has reached since run()
    load_status,    \* the state polled once after send_new ("none" before)
    status,         \* the state fetched by the current poll iteration
    telemetry,      \* the telemetry fetched by the current poll iteration
    polled,         \* the states the poll loop's get_status calls returned
    ticks,          \* the telemetry_callback invocations, in order
    cmds,           \* the vehicle mission commands issued, in order
    fault,          \* the operation that raised inside the try ("none")
    timed_out,      \* the loop found elapsed > max_duration
    stop_failed,    \* the best-effort stop of the except block raised
    result,         \* what run_mission returned ("none" while running)
    reason,         \* the caller's reason string ("none" before)
    upc,            \* where get_usbl_data stands
    socket,         \* USBLReader.socket
    os_socket,      \* the socket object connect() created, if any
    num_samples,    \* read_data's num_samples argument
    read_timeout,   \* read_data's timeout argument, in tenths of a second
    usbl_now,       \* time.time() of the acquisition, in tenths of a second
    usbl_start,     \* read_data's start_time
    data,           \* read_data's data: what the last recv returned
    samples,        \* read_data's samples
    sample_count,   \* read_data's sample_count
    usbl_data,      \* what get_usbl_data returned (Pending while running)
    navigation_strategy,  \* MissionManager's strategy object, by class name
    drone_position, \* build_mission's drone_position (lat, lon)
    target_position,\* build_mission's target_position (lat, lon, depth)
    config,         \* the Config the strategy reads its parameters from
    mission,        \* the Mission build_mission returned last
    earlier,        \* one earlier build_mission call: its arguments and result
    log_now,        \* datetime.now(), in whole seconds
    mission_start_time,  \* MissionManager.mission_start_time, or NotStarted
    mission_data,   \* MissionManager.mission_data: the entries of the run log
    files,          \* the files of mission_logs: name |-> entries written
    log_call,       \* the last logging call: its name and what it returned
    discarded,      \* the list mission_data named before the last start
    docking_lat,    \* relative_to_absolute's docking_lat, in whole degrees
    docking_lon,    \* relative_to_absolute's docking_lon, in whole degrees
    x,              \* relative_to_absolute's x, in metres
    y,              \* relative_to_absolute's y, in metres
    bearing,        \* the math.atan2 call that produced bearing_rad, if any
    position,       \* what relative_to_absolute returned (NoPosition before)
    run_button,     \* DockingSystemGUI.run_button is enabled
    stop_button,    \* DockingSystemGUI.stop_button is enabled
    config_tabs,    \* DockingSystemGUI.config_tabs is enabled
    test_drone_button,     \* test_drone_button is enabled
    test_usbl_button,      \* test_usbl_button is enabled
    use_live_usbl_button,  \* use_live_usbl_button is enabled
    use_usbl,       \* use_usbl_check.isChecked()
    workers,        \* the MissionWorker threads started, in order
    completed,      \* the mission_completed signals emitted and not yet handled
    test_drone_worker,     \* where the test_drone_worker thread stands
    test_usbl_worker,      \* where the test_usbl_worker thread stands
    fetch_usbl_worker,     \* where the fetch_usbl_worker thread stands
    drone_connections,     \* the threads holding an open drone connection
    usbl_connections,      \* the threads holding an open USBL socket
    caller,         \* who runs the pipeline: main or MissionWorker.run
    caller_pc,      \* where that caller stands
    usbl_enabled,   \* not args.no_usbl (main), self.use_usbl (worker)
    caller_fix,     \* the caller's usbl_data (Pending before the attempt)
    start_position, \* the caller's drone_position (NoStart for None)
    handed,         \* the mission handed to run_mission, if any
    dpc,            \* where DroneManager.disconnect stands
    disconnect_result      \* what disconnect returned ("none" before)

mission_vars == <<vehicle, telemetry_callback, connected, is_running, pc, now,
                  start_time, max_duration,
                  load_status, status, telemetry, polled, ticks, cmds, fault,
                  timed_out, stop_failed, result, reason>>

usbl_vars == <<upc, socket, os_socket, num_samples, read_timeout, usbl_now,
               usbl_start, data, samples, sample_count, usbl_data>>

nav_vars == <<navigation_strategy, drone_position, target_position, config,
              mission, earlier>>

log_vars ==
    <<log_now, mission_start_time, mission_data, files, log_call, discarded>>

conv_vars == <<docking_lat, docking_lon, x, y, bearing, position>>

gui_vars == <<run_button, stop_button, config_tabs, test_drone_button,
              test_usbl_button, use_live_usbl_button, use_usbl, workers,
              completed, test_drone_worker, test_usbl_worker,
              fetch_usbl_worker, drone_connections, usbl_connections>>

caller_vars == <<caller, caller_pc, usbl_enabled, caller_fix, start_position,
                 handed>>

session_vars == <<dpc, disconnect_result>>

vars == <<mission_vars, usbl_vars, nav_vars, log_vars, conv_vars, gui_vars,
          caller_vars, session_vars>>

(***************************************************************************)
(* Helpers.                                                                *)
(***************************************************************************)
\* one vehicle command, tagged with the source line that issues it
Cmd(op, at) == [op |-> op, at |-> at]

Issue(op, at) == Append(cmds, Cmd(op, at))

\* the positions of cmds holding operation op issued at line at
Where(op, at) == {i \in 1..Len(cmds) : cmds[i] = Cmd(op, at)}

Count(op, at) == Cardinality(Where(op, at))

\* time.sleep(d): the clock moves on by d or more
AfterSleep(t, d) == {t + d + lag : lag \in 0..MaxLag}

\* elapsed measured from a start_time that is re-read in every iteration
Elapsed_Reset(t, start) == 0

\* elapsed = time.time() - start_time
Elapsed(t, start) == t - start

\* if elapsed > max_duration
TimedOut(elapsed, max) == elapsed > max

\* a load check that only looks for the failure state
Loaded_UnlessFailed(state) == state # FAILED_TO_LOAD

\* if status.state != bp.MissionState.MISSION_STATE_READY: return False
Loaded(state) == state = READY

\* a state inspection that leaves FAILED_TO_START_MISSION out of its list
Outcome_NoStartFailure(state) ==
    IF state = COMPLETED THEN "True"
    ELSE IF state \in {ABORTED, FAILED_TO_LOAD} THEN "False"
    ELSE "continue"

\* the state inspection at the end of a poll iteration: the value returned,
\* or "continue"
Outcome(state) ==
    IF state = COMPLETED THEN "True"
    ELSE IF state = ABORTED THEN "False"
    ELSE IF state \in {FAILED_TO_LOAD, FAILED_TO_START} THEN "False"
    ELSE "continue"

\* a guard that looks at the callback only
ShouldCall_Always(t) == TRUE

\* if telemetry_callback and telemetry (both callers pass a callback)
ShouldCall(t) == t # None

\* an except block whose stop is not wrapped in its own try
ExceptReturn_NoCatch(stop_ok) == IF stop_ok THEN "False" ELSE "raised"

\* the except block: try: stop() except: pass; return False
ExceptReturn(stop_ok) == "False"

\* a caller that reports every run alike
ReasonFor_Alike(success) == "Failed or aborted"

\* reason = "Completed successfully" if success else "Failed or aborted"
ReasonFor(success) ==
    IF success = "True" THEN "Completed successfully" ELSE "Failed or aborted"

(***************************************************************************)
(* Mission logging: MissionManager.start_mission_logging, log_telemetry    *)
(* and end_mission_logging, src/src/mission.py:52-138.  Times are whole    *)
(* seconds, the resolution of the file name; an entry is kept without its  *)
(* own timestamp, the start entry with the run's.  Python's True and False *)
(* are "True" and "False", as for run_mission's result.                    *)
(***************************************************************************)
\* self.mission_start_time = None, mission.py:32
NotStarted == -1

\* mission.py:65-71
StartEntry(time) == [event |-> "mission_start", timestamp |-> time]

\* mission.py:88-100
TelemetryEntry(state, t) ==
    [event |-> "telemetry", state |-> state, telemetry |-> t]

\* mission.py:120-125
EndEntry(success, why) ==
    [event |-> "mission_end", success |-> success, reason |-> why]

\* mission.py:128-131: mission_{%Y%m%d_%H%M%S}_{success|failed}.json
LogName(time, success) ==
    [timestamp |-> time,
     status |-> IF success = "True" THEN "success" ELSE "failed"]

\* open(file_path, 'w') and json.dump, mission.py:134-135
Written(fs, name, entries) ==
    [n \in DOMAIN fs \cup {name} |-> IF n = name THEN entries ELSE fs[n]]

\* the logging call made last
LogCall(op, returned) == [op |-> op, returned |-> returned]

\* what a logging call returns: no path (None), or the path of the file
NoPath == {}

PathOf(name) == {name}

\* a manager after __init__, mission.py:28-32
LogInit ==
    /\ log_now = 0
    /\ mission_start_time = NotStarted
    /\ mission_data = <<>>
    /\ files = <<>>
    /\ log_call = LogCall("__init__", NoPath)
    /\ discarded = <<>>

\* a manager whose start_mission_logging was just called (mission.py:163-167,
\* gui.py:157-161)
LogStarted ==
    /\ log_now = 0
    /\ mission_start_time = 0
    /\ mission_data = <<StartEntry(0)>>
    /\ files = <<>>
    /\ log_call = LogCall("start_mission_logging", NoPath)
    /\ discarded = <<>>

\* an end of logging that keeps the entries in memory only
WriteLog_NoFile(success, why) ==
    /\ mission_data' = Append(mission_data, EndEntry(success, why))
    /\ log_call' = LogCall("end_mission_logging",
                           PathOf(LogName(mission_start_time, success)))
    /\ UNCHANGED <<log_now, mission_start_time, files, discarded>>

\* mission.py:119-138: the end entry is appended and the log is written
WriteLog(success, why) ==
    LET entries == Append(mission_data, EndEntry(success, why))
        name == LogName(mission_start_time, success)
    IN  /\ mission_data' = entries
        /\ files' = Written(files, name, entries)
        /\ log_call' = LogCall("end_mission_logging", PathOf(name))
        /\ UNCHANGED <<log_now, mission_start_time, discarded>>

(***************************************************************************)
(* Initial state: a DroneManager after construction, or after a connect()  *)
(* that succeeded; run_mission not yet called.  A MissionWorker calls      *)
(* run_mission only after connect() returned True (gui.py:71-74), with     *)
(* is_running set (gui.py:59); execute_mission calls it on the manager it  *)
(* is handed.                                                              *)
(***************************************************************************)
MissionInit ==
    /\ connected \in BOOLEAN
    /\ is_running \in BOOLEAN
    /\ is_running => connected
    /\ pc = "call"
    /\ now = 0
    /\ start_time = 0
    /\ max_duration \in 1..MaxDuration
    /\ telemetry_callback = IF is_running THEN "MissionWorker.run"
                            ELSE "log_telemetry"
    /\ vehicle = "none"
    /\ load_status = "none"
    /\ status = "none"
    /\ telemetry = None
    /\ polled = <<>>
    /\ ticks = <<>>
    /\ cmds = <<>>
    /\ fault = "none"
    /\ timed_out = FALSE
    /\ stop_failed = FALSE
    /\ result = "none"
    /\ reason = "none"

(***************************************************************************)
(* run_mission, one action per vehicle call or decision.                   *)
(***************************************************************************)
\* an operation inside the try raised: control goes to the except block
Raise(op) ==
    /\ fault' = op
    /\ pc' = "except"

\* return value from inside the try
Return(value) ==
    /\ result' = value
    /\ pc' = "returned"

\* lines 138-142, with the clear of lines 145-148 forgotten
Call_SkipClear ==
    /\ pc = "call"
    /\ IF ~connected
       THEN /\ Return("False")
            /\ UNCHANGED start_time
       ELSE /\ start_time' = now
            /\ pc' = "send_new"
            /\ UNCHANGED result
    /\ UNCHANGED <<vehicle, telemetry_callback, connected, is_running, now, max_duration, load_status,
                   status, telemetry, polled, ticks, cmds, fault, timed_out,
                   stop_failed, reason>>
    /\ UNCHANGED <<usbl_vars, nav_vars, log_vars, conv_vars, gui_vars,
                   caller_vars, session_vars>>

\* lines 138-142
Call ==
    /\ pc = "call"
    /\ IF ~connected
       THEN /\ Return("False")
            /\ UNCHANGED start_time
       ELSE /\ start_time' = now
            /\ pc' = "clear"
            /\ UNCHANGED result
    /\ UNCHANGED <<vehicle, telemetry_callback, connected, is_running, now, max_duration, load_status,
                   status, telemetry, polled, ticks, cmds, fault, timed_out,
                   stop_failed, reason>>
    /\ UNCHANGED <<usbl_vars, nav_vars, log_vars, conv_vars, gui_vars,
                   caller_vars, session_vars>>

\* lines 147-148
Clear ==
    /\ pc = "clear"
    /\ cmds' = Issue("clear", "drone.py:147")
    /\ \/ /\ Raise("clear")
          /\ UNCHANGED now
       \/ /\ now' \in AfterSleep(now, ClearSleep)
          /\ pc' = "send_new"
          /\ UNCHANGED fault
    /\ UNCHANGED <<vehicle, telemetry_callback, connected, is_running, start_time, max_duration,
                   load_status, status, telemetry, polled, ticks, timed_out,
                   stop_failed, result, reason>>
    /\ UNCHANGED <<usbl_vars, nav_vars, log_vars, conv_vars, gui_vars,
                   caller_vars, session_vars>>

\* lines 152-153
SendNew ==
    /\ pc = "send_new"
    /\ cmds' = Issue("send_new", "drone.py:152")
    /\ \/ /\ Raise("send_new")
          /\ UNCHANGED now
       \/ /\ now' \in AfterSleep(now, SendSleep)
          /\ pc' = "load_status"
          /\ UNCHANGED fault
    /\ UNCHANGED <<vehicle, telemetry_callback, connected, is_running, start_time, max_duration,
                   load_status, status, telemetry, polled, ticks, timed_out,
                   stop_failed, result, reason>>
    /\ UNCHANGED <<usbl_vars, nav_vars, log_vars, conv_vars, gui_vars,
                   caller_vars, session_vars>>

\* lines 156-159
LoadStatus ==
    /\ pc = "load_status"
    /\ cmds' = Issue("get_status", "drone.py:156")
    /\ \/ /\ Raise("get_status")
          /\ UNCHANGED <<load_status, result>>
       \/ \E s \in MissionState :
            /\ load_status' = s
            /\ IF ~Loaded(s)
               THEN Return("False")
               ELSE /\ pc' = "run"
                    /\ UNCHANGED result
            /\ UNCHANGED fault
    /\ UNCHANGED <<vehicle, telemetry_callback, connected, is_running, now, start_time, max_duration,
                   status, telemetry, polled, ticks, timed_out, stop_failed,
                   reason>>
    /\ UNCHANGED <<usbl_vars, nav_vars, log_vars, conv_vars, gui_vars,
                   caller_vars, session_vars>>

\* line 163
Run ==
    /\ pc = "run"
    /\ cmds' = Issue("run", "drone.py:163")
    /\ \/ /\ Raise("run")
          /\ UNCHANGED vehicle
       \/ /\ pc' = "loop"
          /\ vehicle' \in MissionState
          /\ UNCHANGED fault
    /\ UNCHANGED <<telemetry_callback, connected, is_running, now, start_time, max_duration,
                   load_status, status, telemetry, polled, ticks, timed_out,
                   stop_failed, result, reason>>
    /\ UNCHANGED <<usbl_vars, nav_vars, log_vars, conv_vars, gui_vars,
                   caller_vars, session_vars>>

\* lines 166-170, with a cancellation check the source does not have
TimeCheck_Cancel ==
    /\ pc = "loop"
    /\ IF ~is_running
       THEN /\ cmds' = Issue("stop", "drone.py:171")
            /\ Return("False")
            /\ UNCHANGED timed_out
       ELSE /\ IF TimedOut(Elapsed(now, start_time), max_duration)
               THEN /\ timed_out' = TRUE
                    /\ pc' = "timeout_stop"
               ELSE /\ pc' = "get_status"
                    /\ UNCHANGED timed_out
            /\ UNCHANGED <<cmds, result>>
    /\ UNCHANGED <<vehicle, telemetry_callback, connected, is_running, now, start_time, max_duration,
                   load_status, status, telemetry, polled, ticks, fault,
                   stop_failed, reason>>
    /\ UNCHANGED <<usbl_vars, nav_vars, log_vars, conv_vars, gui_vars,
                   caller_vars, session_vars>>

\* lines 166-170, with the vehicle's state looked at before the elapsed time
TimeCheck_StateFirst ==
    /\ pc = "loop"
    /\ IF Outcome(vehicle) = "True"
       THEN /\ Return("True")
            /\ UNCHANGED timed_out
       ELSE /\ IF TimedOut(Elapsed(now, start_time), max_duration)
               THEN /\ timed_out' = TRUE
                    /\ pc' = "timeout_stop"
               ELSE /\ pc' = "get_status"
                    /\ UNCHANGED timed_out
            /\ UNCHANGED result
    /\ UNCHANGED <<vehicle, telemetry_callback, connected, is_running, now,
                   start_time, max_duration, load_status, status, telemetry,
                   polled, ticks, cmds, fault, stop_failed, reason>>
    /\ UNCHANGED <<usbl_vars, nav_vars, log_vars, conv_vars, gui_vars,
                   caller_vars, session_vars>>

\* lines 166-170
TimeCheck ==
    /\ pc = "loop"
    /\ IF TimedOut(Elapsed(now, start_time), max_duration)
       THEN /\ timed_out' = TRUE
            /\ pc' = "timeout_stop"
       ELSE /\ pc' = "get_status"
            /\ UNCHANGED timed_out
    /\ UNCHANGED <<vehicle, telemetry_callback, connected, is_running, now, start_time, max_duration,
                   load_status, status, telemetry, polled, ticks, cmds, fault,
                   stop_failed, result, reason>>
    /\ UNCHANGED <<usbl_vars, nav_vars, log_vars, conv_vars, gui_vars,
                   caller_vars, session_vars>>

\* lines 171-172, with the stop forgotten
TimeoutStop_NoStop ==
    /\ pc = "timeout_stop"
    /\ Return("False")
    /\ UNCHANGED <<vehicle, telemetry_callback, connected, is_running, now, start_time, max_duration,
                   load_status, status, telemetry, polled, ticks, cmds, fault,
                   timed_out, stop_failed, reason>>
    /\ UNCHANGED <<usbl_vars, nav_vars, log_vars, conv_vars, gui_vars,
                   caller_vars, session_vars>>

\* lines 171-172
TimeoutStop ==
    /\ pc = "timeout_stop"
    /\ cmds' = Issue("stop", "drone.py:171")
    /\ \/ /\ Raise("stop")
          /\ UNCHANGED result
       \/ /\ Return("False")
          /\ UNCHANGED fault
    /\ UNCHANGED <<vehicle, telemetry_callback, connected, is_running, now, start_time, max_duration,
                   load_status, status, telemetry, polled, ticks, timed_out,
                   stop_failed, reason>>
    /\ UNCHANGED <<usbl_vars, nav_vars, log_vars, conv_vars, gui_vars,
                   caller_vars, session_vars>>

\* line 175
GetStatus ==
    /\ pc = "get_status"
    /\ Len(polled) < MaxPolls
    /\ cmds' = Issue("get_status", "drone.py:175")
    /\ \/ /\ Raise("get_status")
          /\ UNCHANGED <<status, polled>>
       \/ /\ status' = vehicle
          /\ polled' = Append(polled, vehicle)
          /\ pc' = "get_telemetry"
          /\ UNCHANGED fault
    /\ UNCHANGED <<vehicle, telemetry_callback, connected, is_running, now, start_time, max_duration,
                   load_status, telemetry, ticks, timed_out, stop_failed,
                   result, reason>>
    /\ UNCHANGED <<usbl_vars, nav_vars, log_vars, conv_vars, gui_vars,
                   caller_vars, session_vars>>

\* line 178 with get_telemetry, lines 95-124: a dict, or None when a read
\* raised or the drone is not connected; it never raises
GetTelemetry ==
    /\ pc = "get_telemetry"
    /\ telemetry' \in {None} \cup TelemetryValues
    /\ pc' = "callback"
    /\ UNCHANGED <<vehicle, telemetry_callback, connected, is_running, now, start_time, max_duration,
                   load_status, status, polled, ticks, cmds, fault, timed_out,
                   stop_failed, result, reason>>
    /\ UNCHANGED <<usbl_vars, nav_vars, log_vars, conv_vars, gui_vars,
                   caller_vars, session_vars>>

\* lines 181-182
Callback ==
    /\ pc = "callback"
    /\ IF ShouldCall(telemetry)
       THEN /\ ticks' = Append(ticks, [poll |-> Len(polled),
                                       state |-> status,
                                       telemetry |-> telemetry])
            /\ \/ /\ Raise("callback")
                  /\ UNCHANGED mission_data
               \/ /\ pc' = "inspect"
                  /\ mission_data' =
                        IF telemetry_callback = "log_telemetry"
                        THEN Append(mission_data,
                                    TelemetryEntry(status, telemetry))
                        ELSE mission_data
                  /\ UNCHANGED fault
       ELSE /\ pc' = "inspect"
            /\ UNCHANGED <<ticks, fault, mission_data>>
    /\ UNCHANGED <<log_now, mission_start_time, files, log_call, discarded>>
    /\ UNCHANGED <<vehicle, telemetry_callback, connected, is_running, now, start_time, max_duration,
                   load_status, status, telemetry, polled, cmds, timed_out,
                   stop_failed, result, reason>>
    /\ UNCHANGED <<usbl_vars, nav_vars, conv_vars, gui_vars,
                   caller_vars, session_vars>>

\* lines 193-206, with a stop sent before a vehicle-reported end is returned
Inspect_StopOnEnd ==
    /\ pc = "inspect"
    /\ IF Outcome(status) = "continue"
       THEN /\ now' \in AfterSleep(now, PollSleep)
            /\ vehicle' \in MissionState
            /\ pc' = "loop"
            /\ UNCHANGED <<result, cmds>>
       ELSE /\ cmds' = Issue("stop", "drone.py:197")
            /\ Return(Outcome(status))
            /\ UNCHANGED <<now, vehicle>>
    /\ UNCHANGED <<telemetry_callback, connected, is_running, start_time,
                   max_duration, load_status, status, telemetry, polled,
                   ticks, fault, timed_out, stop_failed, reason>>
    /\ UNCHANGED <<usbl_vars, nav_vars, log_vars, conv_vars, gui_vars,
                   caller_vars, session_vars>>

\* lines 193-206
Inspect ==
    /\ pc = "inspect"
    /\ IF Outcome(status) = "continue"
       THEN /\ now' \in AfterSleep(now, PollSleep)
            /\ vehicle' \in MissionState
            /\ pc' = "loop"
            /\ UNCHANGED result
       ELSE /\ Return(Outcome(status))
            /\ UNCHANGED <<now, vehicle>>
    /\ UNCHANGED <<telemetry_callback, connected, is_running, start_time, max_duration,
                   load_status, status, telemetry, polled, ticks, cmds, fault,
                   timed_out, stop_failed, reason>>
    /\ UNCHANGED <<usbl_vars, nav_vars, log_vars, conv_vars, gui_vars,
                   caller_vars, session_vars>>

\* lines 208-215, with the best-effort stop left out
Except_NoStop ==
    /\ pc = "except"
    /\ stop_failed' = FALSE
    /\ Return("False")
    /\ UNCHANGED <<vehicle, telemetry_callback, connected, is_running, now,
                   start_time, max_duration, load_status, status, telemetry,
                   polled, ticks, cmds, fault, timed_out, reason>>
    /\ UNCHANGED <<usbl_vars, nav_vars, log_vars, conv_vars, gui_vars,
                   caller_vars, session_vars>>

\* lines 208-215
Except ==
    /\ pc = "except"
    /\ cmds' = Issue("stop", "drone.py:212")
    /\ \E stop_ok \in BOOLEAN :
         /\ stop_failed' = ~stop_ok
         /\ Return(ExceptReturn(stop_ok))
    /\ UNCHANGED <<vehicle, telemetry_callback, connected, is_running, now, start_time, max_duration,
                   load_status, status, telemetry, polled, ticks, fault,
                   timed_out, reason>>
    /\ UNCHANGED <<usbl_vars, nav_vars, log_vars, conv_vars, gui_vars,
                   caller_vars, session_vars>>

(***************************************************************************)
(* The caller, after run_mission returned.                                 *)
(***************************************************************************)
\* gui.py:175-182, with one more callback invocation before the log is closed
EndLogging_FinalTick ==
    /\ pc = "returned"
    /\ result # "raised"
    /\ reason' = ReasonFor(result)
    /\ WriteLog(result, ReasonFor(result))
    /\ ticks' = Append(ticks, [poll |-> Len(polled), state |-> status,
                               telemetry |-> telemetry])
    /\ pc' = "ended"
    /\ UNCHANGED <<vehicle, telemetry_callback, connected, is_running, now, start_time, max_duration,
                   load_status, status, telemetry, polled, cmds, fault,
                   timed_out, stop_failed, result>>
    /\ UNCHANGED <<usbl_vars, nav_vars, conv_vars, gui_vars,
                   caller_vars, session_vars>>

\* gui.py:175-182, mission.py:177-181
EndLogging ==
    /\ pc = "returned"
    /\ result # "raised"
    /\ reason' = ReasonFor(result)
    /\ WriteLog(result, ReasonFor(result))
    /\ pc' = "ended"
    /\ UNCHANGED <<vehicle, telemetry_callback, connected, is_running, now, start_time, max_duration,
                   load_status, status, telemetry, polled, ticks, cmds, fault,
                   timed_out, stop_failed, result>>
    /\ UNCHANGED <<usbl_vars, nav_vars, conv_vars, gui_vars,
                   caller_vars, session_vars>>

\* gui.py:188-194
Finally ==
    /\ pc = "ended"
    /\ is_running' = FALSE
    /\ pc' = "finished"
    /\ UNCHANGED <<vehicle, telemetry_callback, connected, now, start_time, max_duration, load_status,
                   status, telemetry, polled, ticks, cmds, fault, timed_out,
                   stop_failed, result, reason>>
    /\ UNCHANGED <<usbl_vars, nav_vars, log_vars, conv_vars, gui_vars,
                   caller_vars, session_vars>>

(***************************************************************************)
(* The GUI thread: MissionWorker.stop, gui.py:234-249.                     *)
(***************************************************************************)
UserStop ==
    /\ is_running
    /\ is_running' = FALSE
    /\ cmds' = IF connected THEN Issue("stop", "gui.py:246") ELSE cmds
    /\ UNCHANGED <<vehicle, telemetry_callback, connected, pc, now, start_time, max_duration, load_status,
                   status, telemetry, polled, ticks, fault, timed_out,
                   stop_failed, result, reason>>
    /\ UNCHANGED <<usbl_vars, nav_vars, log_vars, conv_vars, gui_vars,
                   caller_vars, session_vars>>

(***************************************************************************)
(* USBLReader and get_usbl_data.  Bytes are numbers 0..255, byte strings   *)
(* are sequences, and Python's 0-based positions are kept.                 *)
(***************************************************************************)
\* get_usbl_data has not returned yet
Pending == [fix |-> "none"]

\* the None that read_data and get_usbl_data return
NoFix == [fix |-> None]

\* what recv(1024) may deliver in one call
Chunks ==
    { <<69, 0, 69, 10, 0, 0, 0, 90>>,
      <<69, 0, 69, 10, 0, 0, 0, 90, 0>>,
      <<69, 0, 69, 246, 255, 20, 0, 180, 0>>,
      <<69, 30, 0, 0, 0, 45, 7>>,
      <<69, 0, 69, 10>>,
      <<0, 0, 0, 90, 0>>,
      <<1, 2, 3>> }

\* data.find(b): the 0-based position of the first b, or -1
Find(bytes, b) ==
    LET hits == {i \in 1..Len(bytes) : bytes[i] = b}
    IN  IF hits = {} THEN -1
        ELSE (CHOOSE i \in hits : \A j \in hits : i <= j) - 1

\* data[from:]
From(bytes, from) == SubSeq(bytes, from + 1, Len(bytes))

\* a little-endian signed 16-bit integer ('<h')
Int16(lo, hi) ==
    LET u == lo + 256 * hi IN IF u >= 32768 THEN u - 65536 ELSE u

\* x / 10.0, kept as a fraction
Meters(decimeters) == [num |-> decimeters, den |-> 10]

\* hex_byte_start_real of lines 241-245, for data that holds a marker
PayloadStart(bytes) ==
    Find(From(bytes, Find(bytes, Marker) + 1), Marker) + Find(bytes, Marker) + 2

\* a decoder that takes the bytes a short chunk lacks as zero
Decode_ZeroPadded(bytes) ==
    IF Find(bytes, Marker) = -1 THEN <<>>
    ELSE LET real == PayloadStart(bytes)
             at(i) == IF i <= Len(bytes) THEN bytes[i] ELSE 0
         IN  << [x |-> Meters(Int16(at(real + 1), at(real + 2))),
                 y |-> Meters(Int16(at(real + 3), at(real + 4))),
                 heading |-> at(real + 5)] >>

\* lines 241-256: the samples one chunk adds (none or one)
Decode(bytes) ==
    IF Find(bytes, Marker) = -1 THEN <<>>
    ELSE LET real == PayloadStart(bytes)
         IN  IF real # -1 /\ Len(bytes) > real + 5
             THEN << [x |-> Meters(Int16(bytes[real + 1], bytes[real + 2])),
                      y |-> Meters(Int16(bytes[real + 3], bytes[real + 4])),
                      heading |-> bytes[real + 5]] >>
             ELSE <<>>

RECURSIVE SumOf(_, _)
\* sum(s[field] for s in samples), fractions over the common denominator 10
SumOf(seq, field) ==
    IF seq = <<>> THEN 0
    ELSE LET v == Head(seq)[field]
         IN  (IF field = "heading" THEN v ELSE v.num)
                 + SumOf(Tail(seq), field)

\* an average over the number of samples asked for
Average_ByRequested(seq) ==
    [x |-> [num |-> SumOf(seq, "x"), den |-> 10 * num_samples],
     y |-> [num |-> SumOf(seq, "y"), den |-> 10 * num_samples],
     heading |-> [num |-> SumOf(seq, "heading"), den |-> num_samples]]

\* lines 265-270: USBLData(avg_x, avg_y, avg_heading)
Average(seq) ==
    [x |-> [num |-> SumOf(seq, "x"), den |-> 10 * Len(seq)],
     y |-> [num |-> SumOf(seq, "y"), den |-> 10 * Len(seq)],
     heading |-> [num |-> SumOf(seq, "heading"), den |-> Len(seq)]]

UsblInit ==
    /\ upc = "connect"
    /\ socket = None
    /\ os_socket = "absent"
    /\ num_samples \in 1..MaxSamples
    /\ read_timeout \in 1..MaxReadTimeout
    /\ usbl_now = 0
    /\ usbl_start = 0
    /\ data = <<>>
    /\ samples = <<>>
    /\ sample_count = 0
    /\ usbl_data = Pending

\* get_usbl_data returns value
UsblReturn(value) ==
    /\ usbl_data' = value
    /\ upc' = "done"

\* USBLReader.connect, utils.py:195-210, and main.py:111-113: the socket is
\* created and stored, then configured and connected; any of these may raise
Connect ==
    /\ upc = "connect"
    /\ \/ /\ UNCHANGED <<socket, os_socket>>
          /\ UsblReturn(NoFix)
       \/ /\ socket' = "socket"
          /\ os_socket' = "open"
          /\ UsblReturn(NoFix)
       \/ /\ socket' = "socket"
          /\ os_socket' = "open"
          /\ upc' = "read_data"
          /\ UNCHANGED usbl_data
    /\ UNCHANGED <<num_samples, read_timeout, usbl_now, usbl_start, data,
                   samples, sample_count>>
    /\ UNCHANGED <<mission_vars, nav_vars, log_vars, conv_vars, gui_vars,
                   caller_vars, session_vars>>

\* read_data, utils.py:223-232
ReadData ==
    /\ upc = "read_data"
    /\ IF socket = None
       THEN /\ upc' = "read_failed"
            /\ UNCHANGED <<usbl_start, samples, sample_count>>
       ELSE /\ usbl_start' = usbl_now
            /\ samples' = <<>>
            /\ sample_count' = 0
            /\ upc' = "loop"
    /\ UNCHANGED <<socket, os_socket, num_samples, read_timeout, usbl_now,
                   data, usbl_data>>
    /\ UNCHANGED <<mission_vars, nav_vars, log_vars, conv_vars, gui_vars,
                   caller_vars, session_vars>>

\* a loop that only counts samples
LoopCheck_NoTimeout ==
    /\ upc = "loop"
    /\ upc' = IF sample_count < num_samples THEN "recv" ELSE "average"
    /\ UNCHANGED <<socket, os_socket, num_samples, read_timeout, usbl_now,
                   usbl_start, data, samples, sample_count, usbl_data>>
    /\ UNCHANGED <<mission_vars, nav_vars, log_vars, conv_vars, gui_vars,
                   caller_vars, session_vars>>

\* the loop condition, utils.py:234
LoopCheck ==
    /\ upc = "loop"
    /\ upc' = IF sample_count < num_samples
                   /\ (usbl_now - usbl_start) < read_timeout
              THEN "recv" ELSE "average"
    /\ UNCHANGED <<socket, os_socket, num_samples, read_timeout, usbl_now,
                   usbl_start, data, samples, sample_count, usbl_data>>
    /\ UNCHANGED <<mission_vars, nav_vars, log_vars, conv_vars, gui_vars,
                   caller_vars, session_vars>>

\* one iteration, utils.py:235-258 and the except of 272-274: recv blocks
\* for some time, then raises, returns b'' or returns a chunk
Recv ==
    /\ upc = "recv"
    /\ \E wait \in 0..MaxLag :
         \/ /\ usbl_now' = usbl_now + wait
            /\ upc' = "read_failed"
            /\ UNCHANGED <<data, samples, sample_count>>
         \/ /\ data' = <<>>
            /\ usbl_now' \in AfterSleep(usbl_now + wait, 1)
            /\ upc' = "loop"
            /\ UNCHANGED <<samples, sample_count>>
         \/ \E chunk \in Chunks :
              /\ data' = chunk
              /\ samples' = samples \o Decode(chunk)
              /\ sample_count' = sample_count + Len(Decode(chunk))
              /\ usbl_now' \in IF Find(chunk, Marker) = -1
                               THEN {usbl_now + wait}
                               ELSE AfterSleep(usbl_now + wait, 1)
              /\ upc' = "loop"
    /\ UNCHANGED <<socket, os_socket, num_samples, read_timeout, usbl_start,
                   usbl_data>>
    /\ UNCHANGED <<mission_vars, nav_vars, log_vars, conv_vars, gui_vars,
                   caller_vars, session_vars>>

\* a result that falls back to a zero fix when nothing was decoded
FixOf_Default(seq) ==
    IF seq = <<>>
    THEN [x |-> [num |-> 0, den |-> 10], y |-> [num |-> 0, den |-> 10],
          heading |-> [num |-> 0, den |-> 1]]
    ELSE Average(seq)

\* utils.py:260-270: no fix without samples, else the averaged USBLData
FixOf(seq) == IF seq = <<>> THEN NoFix ELSE Average(seq)

\* utils.py:260-270, then main.py:118-122
Averaged ==
    /\ upc = "average"
    /\ usbl_data' = FixOf(samples)
    /\ upc' = "finally"
    /\ UNCHANGED <<socket, os_socket, num_samples, read_timeout, usbl_now,
                   usbl_start, data, samples, sample_count>>
    /\ UNCHANGED <<mission_vars, nav_vars, log_vars, conv_vars, gui_vars,
                   caller_vars, session_vars>>

\* read_data returned None (utils.py:225, 274), then main.py:118-120
ReadFailed ==
    /\ upc = "read_failed"
    /\ usbl_data' = NoFix
    /\ upc' = "finally"
    /\ UNCHANGED <<socket, os_socket, num_samples, read_timeout, usbl_now,
                   usbl_start, data, samples, sample_count>>
    /\ UNCHANGED <<mission_vars, nav_vars, log_vars, conv_vars, gui_vars,
                   caller_vars, session_vars>>

\* the finally of main.py:123-125 with USBLReader.disconnect, utils.py:276-280
Disconnect ==
    /\ upc = "finally"
    /\ IF socket # None
       THEN /\ os_socket' = "closed"
            /\ socket' = None
       ELSE UNCHANGED <<socket, os_socket>>
    /\ upc' = "done"
    /\ UNCHANGED <<num_samples, read_timeout, usbl_now, usbl_start, data,
                   samples, sample_count, usbl_data>>
    /\ UNCHANGED <<mission_vars, nav_vars, log_vars, conv_vars, gui_vars,
                   caller_vars, session_vars>>

(***************************************************************************)
(* Mission building: MissionManager.build_mission over the navigation      *)
(* strategies of src/src/navigation.py.  Depths are whole meters, speeds   *)
(* and radii whole units; the blueye protocol messages are records.        *)
(***************************************************************************)
\* nothing was built yet
NoMission == [built |-> FALSE]

Max(a, b) == IF a >= b THEN a ELSE b

Min(a, b) == IF a <= b THEN a ELSE b

\* an instruction counter that stays where it is
NextId_Same(instruction_id) == instruction_id

\* instruction_id += 1
NextId(instruction_id) == instruction_id + 1

\* an approach depth without its floor of 5 m
ApproachDepth_NoFloor(target_depth, cfg) ==
    target_depth - cfg.APPROACH_DEPTH_OFFSET

\* navigation.py:59
ApproachDepth(target_depth, cfg) ==
    Max(ApproachFloor, target_depth - cfg.APPROACH_DEPTH_OFFSET)

\* a transit at the approach depth itself
InitialDepth_Approach(approach_depth) == approach_depth

\* navigation.py:79
InitialDepth(approach_depth) == Min(approach_depth, InitialCap)

\* bp.DepthSetPoint, navigation.py:78-82, 118-122, 200-204
DepthSetPoint(depth, cfg) ==
    [depth |-> depth,
     speed_to_depth |-> cfg.DESCENT_SPEED,
     depth_zero_reference |-> "DEPTH_ZERO_REFERENCE_SURFACE"]

\* the control mode instruction, navigation.py:66-73, 207-214
ControlMode(instruction_id) ==
    [id |-> instruction_id,
     command |-> "control_mode_command",
     control_mode_vertical |-> "CONTROL_MODE_VERTICAL_AUTO_DEPTH",
     control_mode_horizontal |-> "CONTROL_MODE_HORIZONTAL_MANUAL",
     auto_continue |-> TRUE]

\* a depth set point instruction, navigation.py:84-90, 124-130, 219-225
GotoDepth(instruction_id, depth_set_point) ==
    [id |-> instruction_id,
     command |-> "depth_set_point_command",
     depth_set_point |-> depth_set_point,
     auto_continue |-> TRUE]

\* a waypoint instruction, navigation.py:95-113, 135-153, 230-248
GotoWaypoint(instruction_id, name, target, depth_set_point, cfg) ==
    [id |-> instruction_id,
     command |-> "waypoint_command",
     waypoint |-> [id |-> instruction_id,
                   name |-> name,
                   latitude |-> target.lat,
                   longitude |-> target.lon,
                   circle_of_acceptance |-> cfg.ACCEPTANCE_RADIUS,
                   speed_to_target |-> cfg.APPROACH_SPEED,
                   depth_set_point |-> depth_set_point],
     auto_continue |-> TRUE]

\* bp.Mission, navigation.py:158-165, 252-259
Mission(name, instructions, cfg) ==
    [id |-> 1,
     name |-> name,
     instructions |-> instructions,
     default_surge_speed |-> cfg.APPROACH_SPEED,
     default_heave_speed |-> cfg.DESCENT_SPEED,
     default_circle_of_acceptance |-> cfg.ACCEPTANCE_RADIUS]

\* a three-stage mission whose transit waypoint lies above the drone
ThreeStageMission_AboveDrone(drone, target, cfg) ==
    LET initial_depth_set_point ==
            DepthSetPoint(InitialDepth(ApproachDepth(target.depth, cfg)), cfg)
        final_depth_set_point == DepthSetPoint(target.depth, cfg)
    IN  Mission("Three-Stage Approach",
                << ControlMode(1),
                   GotoDepth(2, initial_depth_set_point),
                   GotoWaypoint(3, "Above Target",
                                [target EXCEPT !.lat = drone.lat,
                                               !.lon = drone.lon],
                                initial_depth_set_point, cfg),
                   GotoDepth(4, final_depth_set_point),
                   GotoWaypoint(5, "Target", target,
                                final_depth_set_point, cfg) >>,
                cfg)

\* ThreeStageNavigation.create_mission, navigation.py:39-167
ThreeStageMission(drone, target, cfg) ==
    LET approach_depth == ApproachDepth(target.depth, cfg)
        initial_depth_set_point ==
            DepthSetPoint(InitialDepth(approach_depth), cfg)
        final_depth_set_point == DepthSetPoint(target.depth, cfg)
        id1 == 1
        id2 == NextId(id1)
        id3 == NextId(id2)
        id4 == NextId(id3)
        id5 == NextId(id4)
    IN  Mission("Three-Stage Approach",
                << ControlMode(id1),
                   GotoDepth(id2, initial_depth_set_point),
                   GotoWaypoint(id3, "Above Target", target,
                                initial_depth_set_point, cfg),
                   GotoDepth(id4, final_depth_set_point),
                   GotoWaypoint(id5, "Target", target,
                                final_depth_set_point, cfg) >>,
                cfg)

\* a direct mission whose waypoint is taken at the surface
DirectMission_SurfaceWaypoint(drone, target, cfg) ==
    Mission("Direct Approach",
            << ControlMode(1),
               GotoDepth(2, DepthSetPoint(target.depth, cfg)),
               GotoWaypoint(3, "Target", target, DepthSetPoint(0, cfg),
                            cfg) >>,
            cfg)

\* DirectNavigation.create_mission, navigation.py:176-261
DirectMission(drone, target, cfg) ==
    LET depth_set_point == DepthSetPoint(target.depth, cfg)
        id1 == 1
        id2 == NextId(id1)
        id3 == NextId(id2)
    IN  Mission("Direct Approach",
                << ControlMode(id1),
                   GotoDepth(id2, depth_set_point),
                   GotoWaypoint(id3, "Target", target, depth_set_point,
                                cfg) >>,
                cfg)

\* the latitude/longitude pairs of the model
Positions == [lat : 0..MaxCoord, lon : 0..MaxCoord]

\* the targets of the model
Targets == [lat : 0..MaxCoord, lon : 0..MaxCoord, depth : 0..MaxDepth]

\* the positions and targets that repeated build_mission calls are given
RebuildPositions == {p \in Positions : p.lat \in {0, MaxCoord} /\ p.lon = 0}

RebuildTargets ==
    {t \in Targets : /\ t.lat \in {0, MaxCoord}
                     /\ t.lon = 0
                     /\ t.depth \in {0, MaxDepth}}

\* no build_mission call is remembered
NoCall == [called |-> FALSE]

\* a manager with its strategy and parameters, and the arguments of its
\* build_mission calls
NavInit ==
    /\ navigation_strategy \in {"ThreeStageNavigation", "DirectNavigation"}
    /\ drone_position \in Positions
    /\ target_position \in Targets
    /\ config \in [APPROACH_DEPTH_OFFSET : 0..MaxOffset,
                    APPROACH_SPEED : 1..MaxParam,
                    DESCENT_SPEED : 1..MaxParam,
                    ACCEPTANCE_RADIUS : 1..MaxParam]
    /\ mission = NoMission
    /\ earlier = NoCall

\* no mission is being built
NavIdle ==
    /\ navigation_strategy = "ThreeStageNavigation"
    /\ drone_position = [lat |-> 0, lon |-> 0]
    /\ target_position = [lat |-> 0, lon |-> 0, depth |-> 0]
    /\ config = [APPROACH_DEPTH_OFFSET |-> 0, APPROACH_SPEED |-> 1,
                 DESCENT_SPEED |-> 1, ACCEPTANCE_RADIUS |-> 1]
    /\ mission = NoMission
    /\ earlier = NoCall

\* a strategy that numbers on from the instructions it built before
ThreeStageCreate_NumberedOn ==
    /\ navigation_strategy = "ThreeStageNavigation"
    /\ mission' =
          LET built == ThreeStageMission(drone_position, target_position,
                                         config)
              base == IF mission = NoMission THEN 0
                      ELSE Len(mission.instructions)
          IN  [built EXCEPT !.instructions =
                  [i \in 1..Len(built.instructions) |->
                      [built.instructions[i] EXCEPT !.id = base + i]]]
    /\ UNCHANGED <<navigation_strategy, drone_position, target_position,
                   config, earlier>>
    /\ UNCHANGED <<mission_vars, usbl_vars, log_vars, conv_vars, gui_vars,
                   caller_vars, session_vars>>

\* build_mission (mission.py:34-50) with a ThreeStageNavigation
ThreeStageCreate ==
    /\ navigation_strategy = "ThreeStageNavigation"
    /\ mission' = ThreeStageMission(drone_position, target_position, config)
    /\ UNCHANGED <<navigation_strategy, drone_position, target_position,
                   config, earlier>>
    /\ UNCHANGED <<mission_vars, usbl_vars, log_vars, conv_vars, gui_vars,
                   caller_vars, session_vars>>

\* build_mission (mission.py:34-50) with a DirectNavigation
DirectCreate ==
    /\ navigation_strategy = "DirectNavigation"
    /\ mission' = DirectMission(drone_position, target_position, config)
    /\ UNCHANGED <<navigation_strategy, drone_position, target_position,
                   config, earlier>>
    /\ UNCHANGED <<mission_vars, usbl_vars, log_vars, conv_vars, gui_vars,
                   caller_vars, session_vars>>

\* the next build_mission call is given other arguments
Retarget ==
    /\ earlier # NoCall
    /\ drone_position' \in RebuildPositions
    /\ target_position' \in RebuildTargets
    /\ <<drone_position', target_position'>>
           # <<drone_position, target_position>>
    /\ UNCHANGED <<navigation_strategy, config, mission, earlier>>
    /\ UNCHANGED <<mission_vars, usbl_vars, log_vars, conv_vars, gui_vars,
                   caller_vars, session_vars>>

\* the caller keeps the first mission it is given, with the arguments
Remember ==
    /\ mission # NoMission
    /\ earlier = NoCall
    /\ earlier' = [drone_position |-> drone_position,
                   target_position |-> target_position,
                   mission |-> mission]
    /\ UNCHANGED <<navigation_strategy, drone_position, target_position,
                   config, mission>>
    /\ UNCHANGED <<mission_vars, usbl_vars, log_vars, conv_vars, gui_vars,
                   caller_vars, session_vars>>

(***************************************************************************)
(* The logging operations, called in any order.                            *)
(***************************************************************************)
\* the clock reaches the next second
LogTick ==
    /\ log_now < MaxClock
    /\ log_now' = log_now + 1
    /\ UNCHANGED <<mission_start_time, mission_data, files, log_call,
                   discarded>>
    /\ UNCHANGED <<mission_vars, usbl_vars, nav_vars, conv_vars, gui_vars,
                   caller_vars, session_vars>>

\* a start that appends its entry to the entries already held
StartMissionLogging_Appending ==
    /\ Len(mission_data) < MaxEntries
    /\ mission_start_time' = log_now
    /\ mission_data' = Append(mission_data, StartEntry(log_now))
    /\ log_call' = LogCall("start_mission_logging", NoPath)
    /\ discarded' = <<>>
    /\ UNCHANGED <<log_now, files>>
    /\ UNCHANGED <<mission_vars, usbl_vars, nav_vars, conv_vars, gui_vars,
                   caller_vars, session_vars>>

\* a start that writes the entries of the run under way before dropping them
StartMissionLogging_Flushing ==
    /\ mission_start_time' = log_now
    /\ mission_data' = <<StartEntry(log_now)>>
    /\ log_call' = LogCall("start_mission_logging", NoPath)
    /\ discarded' = mission_data
    /\ files' = IF mission_start_time = NotStarted
                THEN files
                ELSE Written(files, LogName(mission_start_time, "False"),
                             mission_data)
    /\ UNCHANGED log_now
    /\ UNCHANGED <<mission_vars, usbl_vars, nav_vars, conv_vars, gui_vars,
                   caller_vars, session_vars>>

\* start_mission_logging, mission.py:52-73
StartMissionLogging ==
    /\ mission_start_time' = log_now
    /\ mission_data' = <<StartEntry(log_now)>>
    /\ log_call' = LogCall("start_mission_logging", NoPath)
    /\ discarded' = mission_data
    /\ UNCHANGED <<log_now, files>>
    /\ UNCHANGED <<mission_vars, usbl_vars, nav_vars, conv_vars, gui_vars,
                   caller_vars, session_vars>>

\* log_telemetry with its first test left out
LogTelemetry_Unguarded ==
    /\ Len(mission_data) < MaxEntries
    /\ \E state \in {RUNNING}, t \in {"telemetry_a"} :
         mission_data' = Append(mission_data, TelemetryEntry(state, t))
    /\ log_call' = LogCall("log_telemetry", NoPath)
    /\ UNCHANGED <<log_now, mission_start_time, files, discarded>>
    /\ UNCHANGED <<mission_vars, usbl_vars, nav_vars, conv_vars, gui_vars,
                   caller_vars, session_vars>>

\* log_telemetry, mission.py:75-102
LogTelemetry ==
    /\ IF mission_start_time = NotStarted
       THEN UNCHANGED mission_data
       ELSE /\ Len(mission_data) < MaxEntries
            /\ \E state \in {RUNNING}, t \in {"telemetry_a"} :
                 mission_data'
                    = Append(mission_data, TelemetryEntry(state, t))
    /\ log_call' = LogCall("log_telemetry", NoPath)
    /\ UNCHANGED <<log_now, mission_start_time, files, discarded>>
    /\ UNCHANGED <<mission_vars, usbl_vars, nav_vars, conv_vars, gui_vars,
                   caller_vars, session_vars>>

\* end_mission_logging, mission.py:104-138
EndMissionLogging ==
    /\ \E success \in {"True", "False"} :
         IF mission_start_time = NotStarted
         THEN /\ log_call' = LogCall("end_mission_logging", NoPath)
              /\ UNCHANGED <<mission_data, files>>
              /\ UNCHANGED <<log_now, mission_start_time, discarded>>
         ELSE /\ Len(mission_data) < MaxEntries
              /\ LogName(mission_start_time, success) \in DOMAIN files
                    \/ Cardinality(DOMAIN files) < MaxFiles
              /\ WriteLog(success, ReasonFor(success))
    /\ UNCHANGED <<mission_vars, usbl_vars, nav_vars, conv_vars, gui_vars,
                   caller_vars, session_vars>>

RunMission ==
    \/ Call \/ Clear \/ SendNew \/ LoadStatus \/ Run \/ TimeCheck
    \/ TimeoutStop \/ GetStatus \/ GetTelemetry \/ Callback \/ Inspect
    \/ Except

Worker == RunMission \/ EndLogging \/ Finally

Next ==
    \/ Call \/ Clear \/ SendNew \/ LoadStatus \/ Run \/ TimeCheck
    \/ TimeoutStop \/ GetStatus \/ GetTelemetry \/ Callback \/ Inspect
    \/ Except \/ EndLogging \/ Finally \/ UserStop

(***************************************************************************)
(* CoordinateConverter.relative_to_absolute (utils.py:50-101) at zero      *)
(* displacement, for origins at whole degrees.  A double is written as the *)
(* whole number of degrees it is nearest to and its distance from that     *)
(* number in units in the last place, so that a result that differs from   *)
(* the origin in its last bit is not the origin.                           *)
(***************************************************************************)
Double(deg, ulps) == [deg |-> deg, ulps |-> ulps]

\* relative_to_absolute has not returned yet
NoPosition == [returned |-> FALSE]

\* math.atan2 has not been called
NoBearing == [called |-> FALSE]

\* line 72: bearing_rad = math.atan2(x, y), evaluated for every x and y
BearingOf(dx, dy) == [called |-> TRUE, args |-> <<dx, dy>>]

\* line 68: distance = math.sqrt(x**2 + y**2), squared
DistanceSquared(dx, dy) == dx * dx + dy * dy

\* lines 79-97 for angular_distance = 0.0 and bearing 0.0, in IEEE-754
\* double arithmetic: math.degrees(math.asin(math.sin(math.radians(d)) * 1.0
\* + math.cos(math.radians(d)) * 0.0 * 1.0)) for d = 0, 1, ..., 15, as units
\* in the last place away from d
LatRoundTrip == <<0, 0, 0, 1, 0, 0, 1, 0, 0, 0, 0, 0, 1, 0, 0, -1>>

\* lines 80-98 for angular_distance = 0.0: math.degrees(math.radians(d)
\* + math.atan2(0.0, 1.0 - sin(lat1) * sin(lat2))) for d = 0, 1, ..., 15, as
\* units in the last place away from d
LonRoundTrip == <<0, 0, 0, 1, 0, 0, 1, 0, 0, 0, 0, 0, 1, 0, 0, -1>>

\* lines 85-89 and 97, at angular distance 0
Lat2(lat) == Double(lat, LatRoundTrip[lat + 1])

\* lines 91-94 and 98, at angular distance 0
Lon2(lon) == Double(lon, LonRoundTrip[lon + 1])

\* the origins relative_to_absolute is called with
ConvInit ==
    /\ docking_lat \in 0..MaxDegrees
    /\ docking_lon \in 0..MaxDegrees
    /\ x = 0
    /\ y = 0
    /\ bearing = NoBearing
    /\ position = NoPosition

\* no conversion is under way
ConvIdle ==
    /\ docking_lat = 0
    /\ docking_lon = 0
    /\ x = 0
    /\ y = 0
    /\ bearing = NoBearing
    /\ position = NoPosition

\* lines 64-101: there is no branch on the displacement
RelativeToAbsolute ==
    /\ position = NoPosition
    /\ DistanceSquared(x, y) = 0
    /\ bearing' = BearingOf(x, y)
    /\ position' = [lat |-> Lat2(docking_lat), lon |-> Lon2(docking_lon)]
    /\ UNCHANGED <<docking_lat, docking_lon, x, y>>
    /\ UNCHANGED <<mission_vars, usbl_vars, nav_vars, log_vars, gui_vars,
                   caller_vars, session_vars>>

(***************************************************************************)
(* The GUI (gui.py): the handlers of Run Mission, Stop Mission, Test Drone *)
(* Connection, Test USBL Connection and Use Live USBL Data run on the GUI  *)
(* thread; each of them but Stop starts a thread of its own.  A widget     *)
(* takes clicks when it and the tab widget it sits in are enabled.         *)
(* connect() either opens a connection and returns True or returns False   *)
(* with nothing left open.                                                 *)
(***************************************************************************)
\* the owner of a connection: the thread that opened it
MissionThread(w) == <<"MissionWorker", w>>

\* the thread a test button started
TestThread(name) == <<name, 0>>

\* self.mission_worker: the worker created last (0 for None)
mission_worker == Len(workers)

\* a MissionWorker after __init__ (gui.py:48-55) and start()
NewWorker == [at |-> "connect", is_running |-> FALSE]

\* the GUI after DockingSystemGUI.__init__: gui.py:318-327
GuiInit ==
    /\ run_button = TRUE
    /\ stop_button = FALSE
    /\ config_tabs = TRUE
    /\ test_drone_button = TRUE
    /\ test_usbl_button = TRUE
    /\ use_live_usbl_button = TRUE
    /\ use_usbl \in BOOLEAN
    /\ workers = <<>>
    /\ completed = 0
    /\ test_drone_worker = "idle"
    /\ test_usbl_worker = "idle"
    /\ fetch_usbl_worker = "idle"
    /\ drone_connections = {}
    /\ usbl_connections = {}

\* no GUI is running
GuiIdle ==
    /\ run_button = TRUE
    /\ stop_button = FALSE
    /\ config_tabs = TRUE
    /\ test_drone_button = TRUE
    /\ test_usbl_button = TRUE
    /\ use_live_usbl_button = TRUE
    /\ use_usbl = TRUE
    /\ workers = <<>>
    /\ completed = 0
    /\ test_drone_worker = "idle"
    /\ test_usbl_worker = "idle"
    /\ fetch_usbl_worker = "idle"
    /\ drone_connections = {}
    /\ usbl_connections = {}

\* _on_run_mission, gui.py:1104-1146
OnRunMission ==
    /\ run_button
    /\ Len(workers) < MaxRuns
    /\ workers' = Append(workers, NewWorker)
    /\ run_button' = FALSE
    /\ stop_button' = TRUE
    /\ config_tabs' = FALSE
    /\ UNCHANGED <<test_drone_button, test_usbl_button, use_live_usbl_button,
                   use_usbl, completed, test_drone_worker, test_usbl_worker,
                   fetch_usbl_worker, drone_connections, usbl_connections>>
    /\ UNCHANGED <<mission_vars, usbl_vars, nav_vars, log_vars, conv_vars,
                   caller_vars, session_vars>>

\* _on_stop_mission answered Yes, gui.py:1148-1163, with MissionWorker.stop,
\* gui.py:234-249
OnStopMission ==
    /\ stop_button
    /\ mission_worker # 0
    /\ workers[mission_worker].at # "finished"
    /\ workers' = [workers EXCEPT ![mission_worker].is_running = FALSE]
    /\ stop_button' = FALSE
    /\ UNCHANGED <<run_button, config_tabs, test_drone_button,
                   test_usbl_button, use_live_usbl_button, use_usbl,
                   completed, test_drone_worker, test_usbl_worker,
                   fetch_usbl_worker, drone_connections, usbl_connections>>
    /\ UNCHANGED <<mission_vars, usbl_vars, nav_vars, log_vars, conv_vars,
                   caller_vars, session_vars>>

\* MissionWorker.run, gui.py:59-75: is_running is set and the drone is
\* connected to; a failed connect emits mission_completed and returns
MissionConnect ==
  \E w \in 1..Len(workers) :
    /\ workers[w].at = "connect"
    /\ \/ /\ drone_connections' = drone_connections \cup {MissionThread(w)}
          /\ workers' = [workers EXCEPT
                            ![w] = [at |-> IF use_usbl THEN "usbl_connect"
                                           ELSE "run_mission",
                                    is_running |-> TRUE]]
          /\ UNCHANGED completed
       \/ /\ workers' = [workers EXCEPT
                            ![w] = [at |-> "finally", is_running |-> TRUE]]
          /\ completed' = completed + 1
          /\ UNCHANGED drone_connections
    /\ UNCHANGED <<run_button, stop_button, config_tabs, test_drone_button,
                   test_usbl_button, use_live_usbl_button, use_usbl,
                   test_drone_worker, test_usbl_worker, fetch_usbl_worker,
                   usbl_connections>>
    /\ UNCHANGED <<mission_vars, usbl_vars, nav_vars, log_vars, conv_vars,
                   caller_vars, session_vars>>

\* _get_usbl_data, gui.py:196-208
MissionUsblConnect ==
  \E w \in 1..Len(workers) :
    /\ workers[w].at = "usbl_connect"
    /\ \/ /\ usbl_connections' = usbl_connections \cup {MissionThread(w)}
          /\ workers' = [workers EXCEPT ![w].at = "usbl_read"]
       \/ /\ workers' = [workers EXCEPT ![w].at = "run_mission"]
          /\ UNCHANGED usbl_connections
    /\ UNCHANGED <<run_button, stop_button, config_tabs, test_drone_button,
                   test_usbl_button, use_live_usbl_button, use_usbl,
                   completed, test_drone_worker, test_usbl_worker,
                   fetch_usbl_worker, drone_connections>>
    /\ UNCHANGED <<mission_vars, usbl_vars, nav_vars, log_vars, conv_vars,
                   caller_vars, session_vars>>

\* _get_usbl_data, gui.py:210-229: read_data, then the finally disconnects
MissionUsblRead ==
  \E w \in 1..Len(workers) :
    /\ workers[w].at = "usbl_read"
    /\ usbl_connections' = usbl_connections \ {MissionThread(w)}
    /\ workers' = [workers EXCEPT ![w].at = "run_mission"]
    /\ UNCHANGED <<run_button, stop_button, config_tabs, test_drone_button,
                   test_usbl_button, use_live_usbl_button, use_usbl,
                   completed, test_drone_worker, test_usbl_worker,
                   fetch_usbl_worker, drone_connections>>
    /\ UNCHANGED <<mission_vars, usbl_vars, nav_vars, log_vars, conv_vars,
                   caller_vars, session_vars>>

\* gui.py:84-186: the mission is built and run, and mission_completed is
\* emitted by the try or by the except
MissionRun ==
  \E w \in 1..Len(workers) :
    /\ workers[w].at = "run_mission"
    /\ completed' = completed + 1
    /\ workers' = [workers EXCEPT ![w].at = "finally"]
    /\ UNCHANGED <<run_button, stop_button, config_tabs, test_drone_button,
                   test_usbl_button, use_live_usbl_button, use_usbl,
                   test_drone_worker, test_usbl_worker, fetch_usbl_worker,
                   drone_connections, usbl_connections>>
    /\ UNCHANGED <<mission_vars, usbl_vars, nav_vars, log_vars, conv_vars,
                   caller_vars, session_vars>>

\* gui.py:188-194
MissionFinally ==
  \E w \in 1..Len(workers) :
    /\ workers[w].at = "finally"
    /\ drone_connections' = drone_connections \ {MissionThread(w)}
    /\ workers' = [workers EXCEPT
                      ![w] = [at |-> "finished", is_running |-> FALSE]]
    /\ UNCHANGED <<run_button, stop_button, config_tabs, test_drone_button,
                   test_usbl_button, use_live_usbl_button, use_usbl,
                   completed, test_drone_worker, test_usbl_worker,
                   fetch_usbl_worker, usbl_connections>>
    /\ UNCHANGED <<mission_vars, usbl_vars, nav_vars, log_vars, conv_vars,
                   caller_vars, session_vars>>

\* _on_mission_completed, gui.py:1169-1184: the slot of a queued signal
OnMissionCompleted ==
    /\ completed > 0
    /\ completed' = completed - 1
    /\ run_button' = TRUE
    /\ stop_button' = FALSE
    /\ config_tabs' = TRUE
    /\ UNCHANGED <<test_drone_button, test_usbl_button, use_live_usbl_button,
                   use_usbl, workers, test_drone_worker, test_usbl_worker,
                   fetch_usbl_worker, drone_connections, usbl_connections>>
    /\ UNCHANGED <<mission_vars, usbl_vars, nav_vars, log_vars, conv_vars,
                   caller_vars, session_vars>>

\* _on_test_drone, gui.py:641-708
OnTestDrone ==
    /\ test_drone_button
    /\ config_tabs
    /\ test_drone_button' = FALSE
    /\ test_drone_worker' = "connect"
    /\ UNCHANGED <<run_button, stop_button, config_tabs, test_usbl_button,
                   use_live_usbl_button, use_usbl, workers, completed,
                   test_usbl_worker, fetch_usbl_worker, drone_connections,
                   usbl_connections>>
    /\ UNCHANGED <<mission_vars, usbl_vars, nav_vars, log_vars, conv_vars,
                   caller_vars, session_vars>>

\* test_drone_worker, gui.py:657-666
TestDroneConnect ==
    /\ test_drone_worker = "connect"
    /\ \/ /\ drone_connections' = drone_connections \cup {TestThread("test_drone_worker")}
          /\ test_drone_worker' = "info"
       \/ /\ test_drone_worker' = "finally"
          /\ UNCHANGED drone_connections
    /\ UNCHANGED <<run_button, stop_button, config_tabs, test_drone_button,
                   test_usbl_button, use_live_usbl_button, use_usbl, workers,
                   completed, test_usbl_worker, fetch_usbl_worker,
                   usbl_connections>>
    /\ UNCHANGED <<mission_vars, usbl_vars, nav_vars, log_vars, conv_vars,
                   caller_vars, session_vars>>

\* test_drone_worker, gui.py:668-698: the information is read, then the
\* inner finally disconnects
TestDroneInfo ==
    /\ test_drone_worker = "info"
    /\ drone_connections' = drone_connections \ {TestThread("test_drone_worker")}
    /\ test_drone_worker' = "finally"
    /\ UNCHANGED <<run_button, stop_button, config_tabs, test_drone_button,
                   test_usbl_button, use_live_usbl_button, use_usbl, workers,
                   completed, test_usbl_worker, fetch_usbl_worker,
                   usbl_connections>>
    /\ UNCHANGED <<mission_vars, usbl_vars, nav_vars, log_vars, conv_vars,
                   caller_vars, session_vars>>

\* test_drone_worker, gui.py:703-705
TestDroneFinally ==
    /\ test_drone_worker = "finally"
    /\ test_drone_button' = TRUE
    /\ test_drone_worker' = "idle"
    /\ UNCHANGED <<run_button, stop_button, config_tabs, test_usbl_button,
                   use_live_usbl_button, use_usbl, workers, completed,
                   test_usbl_worker, fetch_usbl_worker, drone_connections,
                   usbl_connections>>
    /\ UNCHANGED <<mission_vars, usbl_vars, nav_vars, log_vars, conv_vars,
                   caller_vars, session_vars>>

\* _on_test_usbl, gui.py:950-1025
OnTestUsbl ==
    /\ test_usbl_button
    /\ config_tabs
    /\ test_usbl_button' = FALSE
    /\ test_usbl_worker' = "connect"
    /\ UNCHANGED <<run_button, stop_button, config_tabs, test_drone_button,
                   use_live_usbl_button, use_usbl, workers, completed,
                   test_drone_worker, fetch_usbl_worker, drone_connections,
                   usbl_connections>>
    /\ UNCHANGED <<mission_vars, usbl_vars, nav_vars, log_vars, conv_vars,
                   caller_vars, session_vars>>

\* test_usbl_worker, gui.py:966-976
TestUsblConnect ==
    /\ test_usbl_worker = "connect"
    /\ \/ /\ usbl_connections' = usbl_connections \cup {TestThread("test_usbl_worker")}
          /\ test_usbl_worker' = "read"
       \/ /\ test_usbl_worker' = "finally"
          /\ UNCHANGED usbl_connections
    /\ UNCHANGED <<run_button, stop_button, config_tabs, test_drone_button,
                   test_usbl_button, use_live_usbl_button, use_usbl, workers,
                   completed, test_drone_worker, fetch_usbl_worker,
                   drone_connections>>
    /\ UNCHANGED <<mission_vars, usbl_vars, nav_vars, log_vars, conv_vars,
                   caller_vars, session_vars>>

\* test_usbl_worker, gui.py:980-1015: read_data, then the inner finally
\* disconnects
TestUsblRead ==
    /\ test_usbl_worker = "read"
    /\ usbl_connections' = usbl_connections \ {TestThread("test_usbl_worker")}
    /\ test_usbl_worker' = "finally"
    /\ UNCHANGED <<run_button, stop_button, config_tabs, test_drone_button,
                   test_usbl_button, use_live_usbl_button, use_usbl, workers,
                   completed, test_drone_worker, fetch_usbl_worker,
                   drone_connections>>
    /\ UNCHANGED <<mission_vars, usbl_vars, nav_vars, log_vars, conv_vars,
                   caller_vars, session_vars>>

\* test_usbl_worker, gui.py:1020-1022
TestUsblFinally ==
    /\ test_usbl_worker = "finally"
    /\ test_usbl_button' = TRUE
    /\ test_usbl_worker' = "idle"
    /\ UNCHANGED <<run_button, stop_button, config_tabs, test_drone_button,
                   use_live_usbl_button, use_usbl, workers, completed,
                   test_drone_worker, fetch_usbl_worker, drone_connections,
                   usbl_connections>>
    /\ UNCHANGED <<mission_vars, usbl_vars, nav_vars, log_vars, conv_vars,
                   caller_vars, session_vars>>

\* _on_use_live_usbl, gui.py:760-814
OnUseLiveUsbl ==
    /\ use_live_usbl_button
    /\ config_tabs
    /\ use_live_usbl_button' = FALSE
    /\ fetch_usbl_worker' = "connect"
    /\ UNCHANGED <<run_button, stop_button, config_tabs, test_drone_button,
                   test_usbl_button, use_usbl, workers, completed,
                   test_drone_worker, test_usbl_worker, drone_connections,
                   usbl_connections>>
    /\ UNCHANGED <<mission_vars, usbl_vars, nav_vars, log_vars, conv_vars,
                   caller_vars, session_vars>>

\* fetch_usbl_worker, gui.py:776-786
FetchUsblConnect ==
    /\ fetch_usbl_worker = "connect"
    /\ \/ /\ usbl_connections' = usbl_connections \cup {TestThread("fetch_usbl_worker")}
          /\ fetch_usbl_worker' = "read"
       \/ /\ fetch_usbl_worker' = "finally"
          /\ UNCHANGED usbl_connections
    /\ UNCHANGED <<run_button, stop_button, config_tabs, test_drone_button,
                   test_usbl_button, use_live_usbl_button, use_usbl, workers,
                   completed, test_drone_worker, test_usbl_worker,
                   drone_connections>>
    /\ UNCHANGED <<mission_vars, usbl_vars, nav_vars, log_vars, conv_vars,
                   caller_vars, session_vars>>

\* fetch_usbl_worker, gui.py:790-806: read_data, then the inner finally
\* disconnects
FetchUsblRead ==
    /\ fetch_usbl_worker = "read"
    /\ usbl_connections' = usbl_connections \ {TestThread("fetch_usbl_worker")}
    /\ fetch_usbl_worker' = "finally"
    /\ UNCHANGED <<run_button, stop_button, config_tabs, test_drone_button,
                   test_usbl_button, use_live_usbl_button, use_usbl, workers,
                   completed, test_drone_worker, test_usbl_worker,
                   drone_connections>>
    /\ UNCHANGED <<mission_vars, usbl_vars, nav_vars, log_vars, conv_vars,
                   caller_vars, session_vars>>

\* fetch_usbl_worker, gui.py:809-811
FetchUsblFinally ==
    /\ fetch_usbl_worker = "finally"
    /\ use_live_usbl_button' = TRUE
    /\ fetch_usbl_worker' = "idle"
    /\ UNCHANGED <<run_button, stop_button, config_tabs, test_drone_button,
                   test_usbl_button, use_usbl, workers, completed,
                   test_drone_worker, test_usbl_worker, drone_connections,
                   usbl_connections>>
    /\ UNCHANGED <<mission_vars, usbl_vars, nav_vars, log_vars, conv_vars,
                   caller_vars, session_vars>>

(***************************************************************************)
(* The two callers of the mission pipeline: main (main.py:126-237) and     *)
(* MissionWorker.run (gui.py:57-194).  Each obtains the drone's position,  *)
(* connects to the drone and hands a mission built from that position to   *)
(* run_mission.  A fix is the averaged offset get_usbl_data returned.      *)
(***************************************************************************)
\* the fixes get_usbl_data may return
Fixes == [x : 0..MaxFix, y : 0..MaxFix]

\* drone_position = None
NoStart == [from |-> "none"]

\* the placeholder position: the docking station's own coordinates
\* (main.py:189-192, gui.py:98-102)
DefaultStart == [from |-> "default"]

\* relative_to_absolute(DOCKING_LAT, DOCKING_LON, usbl_data.x, usbl_data.y)
\* made the drone position (main.py:153-160, gui.py:87-94)
ConvertedStart(f) == [from |-> "usbl", x |-> f.x, y |-> f.y]

\* no mission was handed to run_mission
NotHanded == [handed |-> FALSE]

\* a mission built from drone_position was handed to run_mission
HandedFrom(p) == [handed |-> TRUE, drone_position |-> p]

\* a caller at its start: main with args.no_usbl, a MissionWorker with use_usbl
CallerInit ==
    /\ caller \in {"main", "MissionWorker.run"}
    /\ usbl_enabled \in BOOLEAN
    /\ caller_pc = IF caller = "main" THEN "position" ELSE "connect"
    /\ caller_fix = Pending
    /\ start_position = NoStart
    /\ handed = NotHanded

\* no caller is running
CallerIdle ==
    /\ caller = "main"
    /\ usbl_enabled = TRUE
    /\ caller_pc = "position"
    /\ caller_fix = Pending
    /\ start_position = NoStart
    /\ handed = NotHanded

\* main.py:144-165: without a fix main returns 1
MainPosition ==
    /\ caller = "main"
    /\ caller_pc = "position"
    /\ IF usbl_enabled
       THEN \E f \in {NoFix} \cup Fixes :
              /\ caller_fix' = f
              /\ IF f = NoFix
                 THEN /\ caller_pc' = "exit"
                      /\ UNCHANGED start_position
                 ELSE /\ start_position' = ConvertedStart(f)
                      /\ caller_pc' = "connect"
       ELSE /\ caller_pc' = "connect"
            /\ UNCHANGED <<caller_fix, start_position>>
    /\ UNCHANGED <<caller, usbl_enabled, handed>>
    /\ UNCHANGED <<mission_vars, usbl_vars, nav_vars, log_vars, conv_vars,
                   gui_vars, session_vars>>

\* main.py:174-192: connect, then the placeholder position if none was set
MainConnect ==
    /\ caller = "main"
    /\ caller_pc = "connect"
    /\ \/ /\ caller_pc' = "exit"
          /\ UNCHANGED start_position
       \/ /\ caller_pc' = "execute"
          /\ start_position' = IF start_position = NoStart THEN DefaultStart
                               ELSE start_position
    /\ UNCHANGED <<caller, usbl_enabled, caller_fix, handed>>
    /\ UNCHANGED <<mission_vars, usbl_vars, nav_vars, log_vars, conv_vars,
                   gui_vars, session_vars>>

\* main.py:208-221 with execute_mission, mission.py:154-175
MainExecute ==
    /\ caller = "main"
    /\ caller_pc = "execute"
    /\ handed' = HandedFrom(start_position)
    /\ caller_pc' = "exit"
    /\ UNCHANGED <<caller, usbl_enabled, caller_fix, start_position>>
    /\ UNCHANGED <<mission_vars, usbl_vars, nav_vars, log_vars, conv_vars,
                   gui_vars, session_vars>>

\* gui.py:64-74
WorkerConnect ==
    /\ caller = "MissionWorker.run"
    /\ caller_pc = "connect"
    /\ caller_pc' \in {"exit", "position"}
    /\ UNCHANGED <<caller, usbl_enabled, caller_fix, start_position, handed>>
    /\ UNCHANGED <<mission_vars, usbl_vars, nav_vars, log_vars, conv_vars,
                   gui_vars, session_vars>>

\* gui.py:76-103: without a fix the worker goes on from the default position
WorkerPosition ==
    /\ caller = "MissionWorker.run"
    /\ caller_pc = "position"
    /\ IF usbl_enabled
       THEN \E f \in {NoFix} \cup Fixes :
              /\ caller_fix' = f
              /\ start_position' = IF f = NoFix THEN DefaultStart
                                   ELSE ConvertedStart(f)
       ELSE /\ start_position' = DefaultStart
            /\ UNCHANGED caller_fix
    /\ caller_pc' = "execute"
    /\ UNCHANGED <<caller, usbl_enabled, handed>>
    /\ UNCHANGED <<mission_vars, usbl_vars, nav_vars, log_vars, conv_vars,
                   gui_vars, session_vars>>

\* gui.py:150-172: build_mission, start_mission_logging, run_mission
WorkerExecute ==
    /\ caller = "MissionWorker.run"
    /\ caller_pc = "execute"
    /\ handed' = HandedFrom(start_position)
    /\ caller_pc' = "exit"
    /\ UNCHANGED <<caller, usbl_enabled, caller_fix, start_position>>
    /\ UNCHANGED <<mission_vars, usbl_vars, nav_vars, log_vars, conv_vars,
                   gui_vars, session_vars>>

(***************************************************************************)
(* DroneManager.disconnect (drone.py:63-93), called by the caller's        *)
(* finally once run_mission has returned (main.py:234-237,                 *)
(* gui.py:188-192).                                                        *)
(***************************************************************************)
\* disconnect has not been called
SessionIdle ==
    /\ dpc = "idle"
    /\ disconnect_result = "none"

\* lines 70-71
DisconnectCheck ==
    /\ dpc = "idle"
    /\ pc \in {"ended", "finished"}
    /\ IF ~connected
       THEN /\ disconnect_result' = "True"
            /\ dpc' = "returned"
       ELSE /\ dpc' = "status"
            /\ UNCHANGED disconnect_result
    /\ UNCHANGED <<mission_vars, usbl_vars, nav_vars, log_vars, conv_vars,
                   gui_vars, caller_vars>>

\* lines 76-78 and 82-83: the status is fetched; it may be None, and an
\* exception is logged and ignored
DisconnectStatus ==
    /\ dpc = "status"
    /\ \E answer \in {"raised", None, vehicle} :
         dpc' = IF answer = RUNNING THEN "stop" ELSE "close"
    /\ UNCHANGED disconnect_result
    /\ UNCHANGED <<mission_vars, usbl_vars, nav_vars, log_vars, conv_vars,
                   gui_vars, caller_vars>>

\* lines 80-83: stop and sleep; an exception is logged and ignored
DisconnectStop ==
    /\ dpc = "stop"
    /\ \/ vehicle' = ABORTED
       \/ UNCHANGED vehicle
    /\ dpc' = "close"
    /\ UNCHANGED disconnect_result
    /\ UNCHANGED <<telemetry_callback, connected, is_running, pc, now,
                   start_time, max_duration, load_status, status, telemetry,
                   polled, ticks, cmds, fault, timed_out, stop_failed, result,
                   reason>>
    /\ UNCHANGED <<usbl_vars, nav_vars, log_vars, conv_vars, gui_vars,
                   caller_vars>>

\* lines 85-93
DisconnectClose ==
    /\ dpc = "close"
    /\ \/ /\ connected' = FALSE
          /\ disconnect_result' = "True"
       \/ /\ disconnect_result' = "False"
          /\ UNCHANGED connected
    /\ dpc' = "returned"
    /\ UNCHANGED <<vehicle, telemetry_callback, is_running, pc, now,
                   start_time, max_duration, load_status, status, telemetry,
                   polled, ticks, cmds, fault, timed_out, stop_failed, result,
                   reason>>
    /\ UNCHANGED <<usbl_vars, nav_vars, log_vars, conv_vars, gui_vars,
                   caller_vars>>

\* no fix acquisition is under way
UsblIdle ==
    /\ upc = "idle"
    /\ socket = None
    /\ os_socket = "absent"
    /\ num_samples = 1
    /\ read_timeout = 1
    /\ usbl_now = 0
    /\ usbl_start = 0
    /\ data = <<>>
    /\ samples = <<>>
    /\ sample_count = 0
    /\ usbl_data = Pending

\* no mission run is under way
MissionIdle ==
    /\ connected = FALSE
    /\ is_running = FALSE
    /\ pc = "idle"
    /\ now = 0
    /\ start_time = 0
    /\ max_duration = 1
    /\ telemetry_callback = "log_telemetry"
    /\ vehicle = "none"
    /\ load_status = "none"
    /\ status = "none"
    /\ telemetry = None
    /\ polled = <<>>
    /\ ticks = <<>>
    /\ cmds = <<>>
    /\ fault = "none"
    /\ timed_out = FALSE
    /\ stop_failed = FALSE
    /\ result = "none"
    /\ reason = "none"

Init ==
    MissionInit /\ UsblIdle /\ NavIdle /\ LogStarted /\ ConvIdle /\ GuiIdle
    /\ CallerIdle /\ SessionIdle

Spec == Init /\ [][Next]_vars

NextUsbl ==
    \/ Connect \/ ReadData \/ LoopCheck \/ Recv \/ Averaged \/ ReadFailed
    \/ Disconnect

InitUsbl ==
    MissionIdle /\ UsblInit /\ NavIdle /\ LogInit /\ ConvIdle /\ GuiIdle
    /\ CallerIdle /\ SessionIdle

SpecUsbl == InitUsbl /\ [][NextUsbl]_vars

NextNav == ThreeStageCreate \/ DirectCreate

InitNav ==
    MissionIdle /\ UsblIdle /\ NavInit /\ LogInit /\ ConvIdle /\ GuiIdle
    /\ CallerIdle /\ SessionIdle

SpecNav == InitNav /\ [][NextNav]_vars

NextRebuild == ThreeStageCreate \/ DirectCreate \/ Remember \/ Retarget

\* a manager whose build_mission is called again and again
InitRebuild ==
    /\ InitNav
    /\ drone_position \in RebuildPositions
    /\ target_position \in RebuildTargets
    /\ config.APPROACH_DEPTH_OFFSET \in {0, MaxOffset}
    /\ config.APPROACH_SPEED = 1
    /\ config.DESCENT_SPEED = MaxParam
    /\ config.ACCEPTANCE_RADIUS = 1

SpecRebuild == InitRebuild /\ [][NextRebuild]_vars

NextLog ==
    \/ LogTick \/ StartMissionLogging \/ LogTelemetry \/ EndMissionLogging

InitLog ==
    MissionIdle /\ UsblIdle /\ NavIdle /\ LogInit /\ ConvIdle /\ GuiIdle
    /\ CallerIdle /\ SessionIdle

SpecLog == InitLog /\ [][NextLog]_vars

NextConvert == RelativeToAbsolute

InitConvert ==
    MissionIdle /\ UsblIdle /\ NavIdle /\ LogInit /\ ConvInit /\ GuiIdle
    /\ CallerIdle /\ SessionIdle

SpecConvert == InitConvert /\ [][NextConvert]_vars

NextGui ==
    \/ OnRunMission \/ OnStopMission \/ OnMissionCompleted
    \/ MissionConnect \/ MissionUsblConnect \/ MissionUsblRead
    \/ MissionRun \/ MissionFinally
    \/ OnTestDrone \/ TestDroneConnect \/ TestDroneInfo \/ TestDroneFinally
    \/ OnTestUsbl \/ TestUsblConnect \/ TestUsblRead \/ TestUsblFinally
    \/ OnUseLiveUsbl \/ FetchUsblConnect \/ FetchUsblRead
    \/ FetchUsblFinally

InitGui ==
    MissionIdle /\ UsblIdle /\ NavIdle /\ LogInit /\ ConvIdle /\ GuiInit
    /\ CallerIdle /\ SessionIdle

SpecGui == InitGui /\ [][NextGui]_vars

NextCaller ==
    \/ MainPosition \/ MainConnect \/ MainExecute
    \/ WorkerConnect \/ WorkerPosition \/ WorkerExecute

InitCaller ==
    MissionIdle /\ UsblIdle /\ NavIdle /\ LogInit /\ ConvIdle /\ GuiIdle
    /\ CallerInit /\ SessionIdle

SpecCaller == InitCaller /\ [][NextCaller]_vars

\* a mission run followed by the disconnect of the caller's finally
NextSession ==
    \/ Call \/ Clear \/ SendNew \/ LoadStatus \/ Run \/ TimeCheck
    \/ TimeoutStop \/ GetStatus \/ GetTelemetry \/ Callback \/ Inspect
    \/ Except \/ EndLogging \/ Finally \/ UserStop
    \/ DisconnectCheck \/ DisconnectStatus \/ DisconnectStop
    \/ DisconnectClose

SpecSession == Init /\ [][NextSession]_vars

\* run_mission is a blocking call of one thread: that thread keeps running
FairSpec == Spec /\ WF_vars(Worker)

(***************************************************************************)
(* Observations used by the properties.                                    *)
(***************************************************************************)
\* run_mission has returned
Returned == pc \in {"returned", "ended", "finished"}

\* the caller has computed its reason
Ended == pc \in {"ended", "finished"}

\* the stop commands run_mission itself issued
ExecutorStops == Count("stop", "drone.py:171") + Count("stop", "drone.py:212")

\* the commands run_mission issued, in order
RunMissionCmds == SelectSeq(cmds, LAMBDA c : c.at # "gui.py:246")

\* ... without its stop commands
ProtocolCmds == SelectSeq(RunMissionCmds, LAMBDA c : c.op # "stop")

\* the i-th command of the protocol clear, send_new, status, run, status...
ProtocolAt(i) ==
    IF i = 1 THEN Cmd("clear", "drone.py:147")
    ELSE IF i = 2 THEN Cmd("send_new", "drone.py:152")
    ELSE IF i = 3 THEN Cmd("get_status", "drone.py:156")
    ELSE IF i = 4 THEN Cmd("run", "drone.py:163")
    ELSE Cmd("get_status", "drone.py:175")

\* the callback invocations made for the n-th status poll of the loop
TicksOf(n) == {i \in 1..Len(ticks) : ticks[i].poll = n}

\* a poll of the loop was issued after the GUI thread's stop request
PolledAfterUserStop ==
    \E i \in Where("stop", "gui.py:246") :
        \E j \in Where("get_status", "drone.py:175") : i < j

\* the cap of GetStatus is never what stops the loop
PollCapUnreached == pc = "get_status" => Len(polled) < MaxPolls

(***************************************************************************)
(* C1: if the status poll made after send_new reports a state other than   *)
(* READY, run_mission returns failure and never issues mission.run().      *)
(***************************************************************************)
C1_LoadFailureNeverRuns ==
    load_status \notin {"none", READY} =>
        /\ Returned
        /\ result = "False"
        /\ Count("run", "drone.py:163") = 0

C1_Witness == load_status = RUNNING /\ Returned

(***************************************************************************)
(* C2 (as claimed): whenever the loop finds elapsed > max_duration, stop   *)
(* is called exactly once in that call and the call returns failure,       *)
(* whatever the vehicle operations, stop included, return or raise.        *)
(***************************************************************************)
C2_Original ==
    (timed_out /\ Returned) => (ExecutorStops = 1 /\ result = "False")

(***************************************************************************)
(* C2 (amended): on timeout the call returns failure and issues the        *)
(* timeout stop exactly once; when that stop returns it is the only stop,  *)
(* and when it raises the except block issues one more best-effort stop.   *)
(***************************************************************************)
C2_TimeoutStops ==
    (timed_out /\ Returned) =>
        /\ result = "False"
        /\ Count("stop", "drone.py:171") = 1
        /\ Count("stop", "drone.py:212") = (IF fault = "stop" THEN 1 ELSE 0)

C2_Witness == timed_out /\ Returned /\ fault = "stop" /\ Len(polled) > 0

(***************************************************************************)
(* C3 (as claimed): run_mission returns success if and only if a status    *)
(* poll of the loop reported COMPLETED; a polled ABORTED, FAILED_TO_LOAD   *)
(* or FAILED_TO_START ends the call with failure.                          *)
(***************************************************************************)
C3_Original ==
    Returned =>
        /\ (result = "True") <=>
               (\E i \in 1..Len(polled) : polled[i] = COMPLETED)
        /\ (\E i \in 1..Len(polled) :
                polled[i] \in {ABORTED, FAILED_TO_LOAD, FAILED_TO_START})
               => result = "False"

(***************************************************************************)
(* C3 (amended): run_mission returns success if and only if a status poll  *)
(* of the loop reported COMPLETED and the telemetry callback of that tick  *)
(* did not raise; a polled ABORTED, FAILED_TO_LOAD or FAILED_TO_START ends *)
(* the call with failure; any other polled state ends the call only        *)
(* through a timeout or a fault, never by itself.                          *)
(***************************************************************************)
C3_Dispatch ==
    /\ Returned =>
           ((result = "True") <=>
                /\ \E i \in 1..Len(polled) : polled[i] = COMPLETED
                /\ fault = "none")
    /\ \A i \in 1..Len(polled) :
           /\ i < Len(polled) => polled[i] \in {READY, RUNNING}
           /\ polled[i] \in {ABORTED, FAILED_TO_LOAD, FAILED_TO_START} =>
                  /\ pc \notin {"loop", "get_status", "timeout_stop"}
                  /\ Returned => result = "False"
    /\ (/\ Returned
        /\ polled # <<>>
        /\ polled[Len(polled)] \in {READY, RUNNING}) =>
           (timed_out \/ fault # "none")

C3_Witness ==
    /\ Returned
    /\ result = "False"
    /\ fault = "callback"
    /\ polled # <<>>
    /\ polled[Len(polled)] = COMPLETED

C5_FaultHandled ==
    /\ result # "raised"
    /\ pc = "except" => fault # "none"
    /\ (fault # "none" /\ Returned) =>
           /\ result = "False"
           /\ Count("stop", "drone.py:212") = 1
           /\ ExecutorStops = (IF fault = "stop" THEN 2 ELSE 1)

C5_Witness == fault = "send_new" /\ stop_failed /\ Returned

C7_Terminates ==
    /\ [](polled # <<>> =>
             ClearSleep + SendSleep + PollSleep * (Len(polled) - 1)
                 <= max_duration)
    /\ <>Returned

C7_Witness ==
    /\ Returned
    /\ timed_out
    /\ Len(polled) >= 2
    /\ \A i \in 1..Len(polled) : polled[i] \in {READY, RUNNING}

(***************************************************************************)
(* C8: run_mission issues clear, send_new, one status poll, run and then   *)
(* status polls, in that order; run at most once and only after the status *)
(* poll returned READY; send_new never before clear.                       *)
(***************************************************************************)
C8_CommandOrder ==
    /\ \A i \in 1..Len(ProtocolCmds) : ProtocolCmds[i] = ProtocolAt(i)
    /\ Count("run", "drone.py:163") <= 1
    /\ Count("run", "drone.py:163") = 1 => load_status = READY
    /\ Count("get_status", "drone.py:156") <= 1

C8_Witness == Returned /\ Count("get_status", "drone.py:175") >= 2

(***************************************************************************)
(* C9: the callbacks of a run are invoked one per status poll, in the      *)
(* order of the polls that produced them, and none is invoked after        *)
(* run_mission has returned.                                               *)
(***************************************************************************)
C9_TickOrder ==
    /\ [](/\ \A i \in 1..Len(ticks) :
               /\ ticks[i].poll \in 1..Len(polled)
               /\ ticks[i].state = polled[ticks[i].poll]
          /\ \A i, j \in 1..Len(ticks) :
               i < j => ticks[i].poll < ticks[j].poll)
    /\ [][Returned => ticks' = ticks]_vars

C9_Witness == Returned /\ Len(ticks) >= 2

(***************************************************************************)
(* C10: after a USBL fix acquisition ends, on every exit path, the socket  *)
(* the reader created is closed and the reader holds no socket.            *)
(***************************************************************************)
C10_SocketReleased ==
    upc = "done" => (socket = None /\ os_socket \in {"absent", "closed"})

(***************************************************************************)
(* Observations on a fix.                                                  *)
(***************************************************************************)
\* get_usbl_data holds an averaged USBLData
IsFix(value) == value \notin {Pending, NoFix}

\* time.time() - start_time of utils.py:234
ReadElapsed == usbl_now - usbl_start

RECURSIVE TenthsTotal(_, _, _)
\* ten times the sum of one field over the first n samples
TenthsTotal(seq, field, n) ==
    IF n = 0 THEN 0
    ELSE TenthsTotal(seq, field, n - 1)
             + (IF field = "heading" THEN 10 * seq[n].heading
                ELSE seq[n][field].num)

\* fix.field * len(seq) = sum of the field, for each field
IsMeanOf(fix, seq) ==
    /\ seq # <<>>
    /\ \A field \in {"x", "y", "heading"} :
         /\ fix[field].den > 0
         /\ fix[field].num * 10 * Len(seq)
                = fix[field].den * TenthsTotal(seq, field, Len(seq))

(***************************************************************************)
(* C11: read_data never returns a fix computed from zero samples: a fix    *)
(* that was returned averages at least one decoded sample, and a read      *)
(* that ended with no sample decoded gave None.                            *)
(***************************************************************************)
C11_NeverFromZeroSamples ==
    /\ IsFix(usbl_data) => (Len(samples) >= 1 /\ sample_count >= 1)
    /\ (upc \in {"finally", "done"} /\ samples = <<>>) => usbl_data = NoFix

\* the timeout passed with chunks received and none decoded
C11_Witness ==
    /\ upc = "done"
    /\ data # <<>>
    /\ samples = <<>>
    /\ ReadElapsed >= read_timeout
    /\ usbl_data = NoFix

(***************************************************************************)
(* C12 as stated: whenever a sample was decoded before the read ended,     *)
(* the read gives the mean of the samples decoded so far.                  *)
(***************************************************************************)
C12_Original ==
    (upc \in {"finally", "done"} /\ samples # <<>>)
        => (IsFix(usbl_data) /\ IsMeanOf(usbl_data, samples))

(***************************************************************************)
(* C12: accumulation goes on only while fewer than the requested samples   *)
(* are decoded and the timeout has not been found elapsed; a loop that     *)
(* ends by count or timeout with samples gives their mean; a recv that     *)
(* raises ends the read with None, whatever was decoded.                   *)
(***************************************************************************)
C12_StopsAndAverages ==
    /\ [](/\ Len(samples) <= num_samples
          /\ sample_count = Len(samples)
          /\ upc = "recv" => (/\ sample_count < num_samples
                              /\ ReadElapsed < read_timeout)
          /\ upc = "average" => (\/ sample_count >= num_samples
                                 \/ ReadElapsed >= read_timeout))
    /\ [][(upc = "average" /\ samples # <<>>)
              => (IsFix(usbl_data') /\ IsMeanOf(usbl_data', samples))]_vars
    /\ [][upc = "read_failed" => usbl_data' = NoFix]_vars

\* the timeout ended the read with fewer samples than requested
C12_Witness ==
    /\ upc = "done"
    /\ ReadElapsed >= read_timeout
    /\ 1 <= Len(samples)
    /\ Len(samples) < num_samples
    /\ IsFix(usbl_data)
(***************************************************************************)
(* Observations on the frames of the wire format: marker, one byte,        *)
(* marker, then the 5 payload bytes.                                       *)
(***************************************************************************)
\* recv returned in this step (it did not raise)
RecvReturned == upc = "recv" /\ upc' # "read_failed"

\* recv returned bytes in this step (it neither raised nor returned b'')
Received == RecvReturned /\ data' # <<>>

\* the 0-based position p follows a marker, one byte and a marker
MarkerPairBefore(bytes, p) ==
    /\ p >= 3
    /\ p <= Len(bytes)
    /\ bytes[p - 2] = Marker
    /\ bytes[p] = Marker

\* a marker pair and exactly the 5 payload bytes
IsExactFrame(bytes) ==
    /\ Len(bytes) = 8
    /\ bytes[1] = Marker
    /\ bytes[3] = Marker

\* the sample the payload at 0-based position p stands for
SampleAt(bytes, p) ==
    [x |-> Meters(Int16(bytes[p + 1], bytes[p + 2])),
     y |-> Meters(Int16(bytes[p + 3], bytes[p + 4])),
     heading |-> bytes[p + 5]]

(***************************************************************************)
(* C13: a sample is decoded only at a position preceded by two marker      *)
(* bytes one byte apart; a chunk without such a pair adds no sample.       *)
(***************************************************************************)
C13_MarkerPairOnly ==
    [][(Received /\ samples' # samples)
          => \E p \in 3..Len(data') :
                /\ MarkerPairBefore(data', p)
                /\ Len(data') >= p + 5
                /\ samples' = Append(samples, SampleAt(data', p))]_vars

(***************************************************************************)
(* C14: a received marker pair followed by exactly the 5 payload bytes is  *)
(* decoded into one sample (x = east/10, y = north/10, heading byte);      *)
(* 45 00 45 0A 00 00 00 5A gives (1.0, 0.0, 90).                           *)
(***************************************************************************)
C14_ExactFrameDecoded ==
    [][(Received /\ IsExactFrame(data'))
          => /\ samples' = Append(samples, SampleAt(data', 3))
             /\ data' = <<69, 0, 69, 10, 0, 0, 0, 90>>
                   => samples'[Len(samples')]
                        = [x |-> [num |-> 10, den |-> 10],
                           y |-> [num |-> 0, den |-> 10],
                           heading |-> 90]]_vars
\* a frame whose first bytes came in one recv and the rest in the next
IsSplitFrame(first, second) ==
    /\ first # <<>>
    /\ second # <<>>
    /\ Len(first) < 8
    /\ Len(first \o second) >= 8
    /\ (first \o second)[1] = Marker
    /\ (first \o second)[3] = Marker
    /\ \A i \in 1..Len(second) : second[i] # Marker

(***************************************************************************)
(* C15: a frame whose bytes arrive split across two consecutive socket     *)
(* reads is buffered and decoded once the remaining bytes arrive: the      *)
(* second read adds the frame's sample.                                    *)
(***************************************************************************)
C15_SplitFrameBuffered ==
    [][(Received /\ IsSplitFrame(data, data'))
          => samples' = Append(samples, SampleAt(data \o data', 3))]_vars
\* the 1-based positions of the marker bytes
Markers(bytes) == {i \in 1..Len(bytes) : bytes[i] = Marker}

\* the second marker, or the only one
FramingMarker(bytes) ==
    LET first == CHOOSE i \in Markers(bytes) : \A j \in Markers(bytes) : i <= j
        others == Markers(bytes) \ {first}
    IN  IF others = {} THEN first
        ELSE CHOOSE i \in others : \A j \in others : i <= j

\* no marker, or fewer than 5 bytes after the markers
Undecodable(bytes) ==
    \/ Markers(bytes) = {}
    \/ Len(bytes) - FramingMarker(bytes) < 5

(***************************************************************************)
(* C16: a received chunk that cannot be decoded (no marker, too few bytes  *)
(* after the markers) adds no sample and does not end the read loop: the   *)
(* loop condition is tested next, and it reads again while the sample      *)
(* count and the timeout are not reached.                                  *)
(***************************************************************************)
C16_UndecodableSkipped ==
    /\ [][(RecvReturned /\ Undecodable(data'))
             => /\ samples' = samples
                /\ sample_count' = sample_count
                /\ upc' = "loop"]_vars
    /\ [][(upc = "loop" /\ sample_count < num_samples
              /\ ReadElapsed < read_timeout) => upc' = "recv"]_vars

\* about to read again after a chunk that could not be decoded
C16_Witness ==
    /\ upc = "recv"
    /\ data # <<>>
    /\ Undecodable(data)
    /\ Len(samples) >= 1
\* the samples (1, 0, 0), (3, 0, 0), (2, 0, 0)
ExampleSamples ==
    << [x |-> Meters(10), y |-> Meters(0), heading |-> 0],
       [x |-> Meters(30), y |-> Meters(0), heading |-> 0],
       [x |-> Meters(20), y |-> Meters(0), heading |-> 0] >>

(***************************************************************************)
(* C17: the fix read_data returns has x, y and heading each equal to the   *)
(* arithmetic mean of that field over all decoded samples; the samples     *)
(* (1,0,0), (3,0,0), (2,0,0) give (2,0,0).                                 *)
(***************************************************************************)
C17_FixIsMean ==
    /\ IsFix(usbl_data) => IsMeanOf(usbl_data, samples)
    /\ upc = "average" =>
          LET fix == FixOf(ExampleSamples)
          IN  /\ fix.x.num = 2 * fix.x.den
              /\ fix.y.num = 0
              /\ fix.heading.num = 0

\* a fix from three samples that are not all alike
C17_Witness ==
    /\ upc = "done"
    /\ IsFix(usbl_data)
    /\ Len(samples) = 3
    /\ samples[1] # samples[2]
    /\ samples[2] # samples[3]
(***************************************************************************)
(* Observations on a built mission.                                        *)
(***************************************************************************)
Built == mission # NoMission

BuiltThreeStage == Built /\ navigation_strategy = "ThreeStageNavigation"

BuiltDirect == Built /\ navigation_strategy = "DirectNavigation"

\* the depth an instruction steers to: its own set point, or its waypoint's
DepthOf(instruction) ==
    IF instruction.command = "waypoint_command"
    THEN instruction.waypoint.depth_set_point.depth
    ELSE instruction.depth_set_point.depth

(***************************************************************************)
(* C18: a Direct mission has exactly 3 instructions with ids 1, 2, 3 and   *)
(* a ThreeStage mission exactly 5 with ids 1..5, whatever the origin, the  *)
(* target and the parameters: ids are unique, increasing, 1-based and      *)
(* contiguous.                                                             *)
(***************************************************************************)
C18_InstructionIds ==
    /\ BuiltDirect => Len(mission.instructions) = 3
    /\ BuiltThreeStage => Len(mission.instructions) = 5
    /\ Built => \A i \in 1..Len(mission.instructions) :
                    mission.instructions[i].id = i

\* a ThreeStage mission was built for a target away from the origin
C18_Witness ==
    /\ BuiltThreeStage
    /\ Len(mission.instructions) = 5
    /\ target_position.lat # drone_position.lat
    /\ config.APPROACH_SPEED # config.DESCENT_SPEED

(***************************************************************************)
(* C19: in a ThreeStage mission instruction 2 is a depth set point to      *)
(* initial_depth = min(max(5, target depth - offset), 5), instruction 3 a  *)
(* waypoint to the target's lat/lon at that depth, instruction 4 a depth   *)
(* set point to the target depth and instruction 5 a waypoint to the       *)
(* target's lat/lon at the target depth.                                   *)
(***************************************************************************)
C19_ThreeStageContents ==
    BuiltThreeStage =>
        LET difference ==
                target_position.depth - config.APPROACH_DEPTH_OFFSET
            approach == IF difference > 5 THEN difference ELSE 5
            initial_depth == IF approach < 5 THEN approach ELSE 5
            at(i) == mission.instructions[i]
        IN  /\ at(2).command = "depth_set_point_command"
            /\ at(2).depth_set_point.depth = initial_depth
            /\ at(3).command = "waypoint_command"
            /\ at(3).waypoint.latitude = target_position.lat
            /\ at(3).waypoint.longitude = target_position.lon
            /\ at(3).waypoint.depth_set_point.depth = initial_depth
            /\ at(4).command = "depth_set_point_command"
            /\ at(4).depth_set_point.depth = target_position.depth
            /\ at(5).command = "waypoint_command"
            /\ at(5).waypoint.latitude = target_position.lat
            /\ at(5).waypoint.longitude = target_position.lon
            /\ at(5).waypoint.depth_set_point.depth = target_position.depth

\* a ThreeStage mission for a target whose approach depth is below 5 m
C19_Witness ==
    /\ BuiltThreeStage
    /\ target_position.depth - config.APPROACH_DEPTH_OFFSET > 5
    /\ DepthOf(mission.instructions[2]) < DepthOf(mission.instructions[4])

(***************************************************************************)
(* C20: in a ThreeStage mission for a target of depth >= 0 the transit     *)
(* depth of instructions 2 and 3 is not deeper than the target depth of    *)
(* instructions 4 and 5.                                                   *)
(***************************************************************************)
C20_TransitNotDeeper ==
    (BuiltThreeStage /\ target_position.depth >= 0) =>
        /\ DepthOf(mission.instructions[2]) <= DepthOf(mission.instructions[4])
        /\ DepthOf(mission.instructions[3]) <= DepthOf(mission.instructions[5])
(***************************************************************************)
(* C21: in a Direct mission instruction 1 is the control mode change to    *)
(* auto depth / manual horizontal, instruction 2 a depth set point to the  *)
(* target depth, and instruction 3 a waypoint to the target position with  *)
(* the same depth set point as instruction 2, the configured acceptance    *)
(* radius and the configured approach speed.                               *)
(***************************************************************************)
C21_DirectContents ==
    BuiltDirect =>
        LET at(i) == mission.instructions[i]
        IN  /\ at(1).command = "control_mode_command"
            /\ at(1).control_mode_vertical
                  = "CONTROL_MODE_VERTICAL_AUTO_DEPTH"
            /\ at(1).control_mode_horizontal
                  = "CONTROL_MODE_HORIZONTAL_MANUAL"
            /\ at(2).command = "depth_set_point_command"
            /\ at(2).depth_set_point.depth = target_position.depth
            /\ at(3).command = "waypoint_command"
            /\ at(3).waypoint.latitude = target_position.lat
            /\ at(3).waypoint.longitude = target_position.lon
            /\ at(3).waypoint.depth_set_point = at(2).depth_set_point
            /\ at(3).waypoint.circle_of_acceptance
                  = config.ACCEPTANCE_RADIUS
            /\ at(3).waypoint.speed_to_target = config.APPROACH_SPEED

\* a Direct mission for a target below the surface, away from the origin
C21_Witness ==
    /\ BuiltDirect
    /\ target_position.depth > 0
    /\ target_position.lon # drone_position.lon
    /\ config.ACCEPTANCE_RADIUS # config.APPROACH_SPEED

Sealed ==
    /\ mission_data # <<>>
    /\ mission_data[Len(mission_data)].event = "mission_end"

(***************************************************************************)
(* C23: once end_mission_logging has appended the end entry, no later      *)
(* log_telemetry or end_mission_logging call adds an entry after it, until *)
(* a new run is started.                                                   *)
(***************************************************************************)
C23_SealedAfterEnd ==
    [][Sealed => \/ mission_data' = mission_data
                 \/ log_call'.op = "start_mission_logging"]_vars

(***************************************************************************)
(* C24: each end of a run writes its log to a file name that no earlier    *)
(* write used, and a file once written is never rewritten.                 *)
(***************************************************************************)
C24_NewFileNeverRewritten ==
    [][/\ \A n \in DOMAIN files :
             n \in DOMAIN files' /\ files'[n] = files[n]
       /\ (log_call'.op = "end_mission_logging"
             /\ mission_data' # mission_data)
            => /\ log_call'.returned # NoPath
               /\ \A n \in log_call'.returned : n \notin DOMAIN files]_vars

(***************************************************************************)
(* C25: log_telemetry called when no run was started appends no entry and  *)
(* writes nothing; end_mission_logging with no run started appends         *)
(* nothing, writes no file and returns no path.                            *)
(***************************************************************************)
C25_NoRunNoEffect ==
    [][(/\ mission_start_time = NotStarted
        /\ log_call'.op \in {"log_telemetry", "end_mission_logging"})
          => /\ mission_data = <<>>
             /\ mission_data' = mission_data
             /\ files' = files
             /\ log_call'.returned = NoPath]_vars

\* end_mission_logging was called, after a second went by, with no run started
C25_Witness ==
    /\ mission_start_time = NotStarted
    /\ log_call.op = "end_mission_logging"
    /\ log_call.returned = NoPath
    /\ mission_data = <<>>
    /\ files = <<>>
    /\ log_now > 0
(***************************************************************************)
(* Observations on the end of a run.                                       *)
(***************************************************************************)
\* the log of the run is on disk as it is in memory, from its start entry
\* to its end entry, and the caller holds its path
LogPersisted ==
    /\ Len(mission_data) >= 2
    /\ mission_data[1].event = "mission_start"
    /\ mission_data[Len(mission_data)].event = "mission_end"
    /\ \E n \in DOMAIN files :
         /\ files[n] = mission_data
         /\ log_call.returned = PathOf(n)

\* how the run came to its end
TerminalOutcome ==
    IF timed_out THEN "timeout"
    ELSE IF fault # "none" THEN "fault"
    ELSE IF load_status = "none" THEN "not_connected"
    ELSE IF load_status # READY THEN "load_failure"
    ELSE IF status = ABORTED THEN "abort"
    ELSE IF status = COMPLETED THEN "success"
    ELSE "start_failure"

\* the ways a run fails
FailureKinds ==
    {"timeout", "fault", "not_connected", "load_failure", "abort",
     "start_failure"}

\* the reason the caller gives for an outcome: run_mission returns False for
\* every failure, and the reason is made from that value alone
ReasonOf(kind) == ReasonFor(IF kind = "success" THEN "True" ELSE "False")

C30_TimeoutPrecedes ==
    /\ [][(/\ pc = "loop"
           /\ pc' # "loop"
           /\ TimedOut(Elapsed(now, start_time), max_duration))
              => /\ pc' = "timeout_stop"
                 /\ timed_out'
                 /\ polled' = polled
                 /\ result' = result]_vars
    /\ []((timed_out /\ Returned) =>
              /\ result = "False"
              /\ Count("stop", "drone.py:171") = 1)

\* a run that polled, then timed out and failed with the vehicle at COMPLETED
C30_Witness ==
    /\ timed_out
    /\ Returned
    /\ result = "False"
    /\ vehicle = COMPLETED
    /\ polled # <<>>
    /\ COMPLETED \notin {polled[i] : i \in 1..Len(polled)}
    /\ Count("stop", "drone.py:171") = 1

(***************************************************************************)
(* C28 (as claimed): for every origin, relative_to_absolute(origin, 0, 0)  *)
(* returns the origin's latitude and longitude exactly, by a dedicated     *)
(* zero-displacement case that does not evaluate the bearing from          *)
(* atan2(0, 0).                                                            *)
(***************************************************************************)
C28_ZeroDisplacementExact ==
    (position # NoPosition /\ x = 0 /\ y = 0) =>
        /\ position = [lat |-> Double(docking_lat, 0),
                       lon |-> Double(docking_lon, 0)]
        /\ bearing # BearingOf(0, 0)

(***************************************************************************)
(* C29 (as claimed): under every interleaving of Run Mission, Stop, Test   *)
(* Drone Connection, Test USBL Connection and Use Live USBL Data and of    *)
(* their threads, at most one connection to the drone and at most one      *)
(* connection to the USBL system is open at any time.                      *)
(***************************************************************************)
C29_SingleConnections ==
    /\ Cardinality(drone_connections) <= 1
    /\ Cardinality(usbl_connections) <= 1

(***************************************************************************)
(* C33 (as claimed): once MissionWorker.stop has issued mission.stop() for *)
(* a user stop request, the run_mission of that worker does not issue      *)
(* mission.run() afterwards, under every interleaving of the GUI thread    *)
(* and the worker thread.                                                  *)
(***************************************************************************)
C33_NoRunAfterUserStop ==
    \A i \in Where("stop", "gui.py:246") :
        \A j \in Where("run", "drone.py:163") : j < i

\* the stop commands run_mission issued
RunMissionStops == SelectSeq(RunMissionCmds, LAMBDA c : c.op = "stop")

(***************************************************************************)
(* C34: run_mission issues mission.stop() only on the timeout path and on  *)
(* the fault path: a call that ends because the vehicle reported           *)
(* COMPLETED, ABORTED, FAILED_TO_LOAD_MISSION or FAILED_TO_START_MISSION,  *)
(* or because the mission was not READY after loading, has issued no stop. *)
(***************************************************************************)
C34_StopOnlyOnTimeoutOrFault ==
    /\ (Returned /\ TerminalOutcome \notin {"timeout", "fault"})
          => RunMissionStops = <<>>
    /\ (fault = "none" /\ ~timed_out) => RunMissionStops = <<>>

\* a run the vehicle ended by reporting ABORTED after an earlier poll
C34_Witness ==
    /\ Returned
    /\ TerminalOutcome = "abort"
    /\ Len(polled) >= 2
    /\ result = "False"
    /\ RunMissionStops = <<>>

(***************************************************************************)
(* C35: an exception raised by the telemetry callback during a poll tick   *)
(* is a fault of the run: run_mission issues its best-effort stop (line    *)
(* 212) once, as its last command, and returns failure, although the       *)
(* vehicle was executing the mission normally.                             *)
(***************************************************************************)
C35_CallbackFaultEndsRun ==
    (Returned /\ fault = "callback") =>
        /\ result = "False"
        /\ Count("stop", "drone.py:212") = 1
        /\ RunMissionCmds[Len(RunMissionCmds)] = Cmd("stop", "drone.py:212")
        /\ ticks # <<>>
        /\ ticks[Len(ticks)].state = status
        /\ ~timed_out

\* the callback raised while the vehicle reported RUNNING
C35_Witness ==
    /\ Returned
    /\ fault = "callback"
    /\ status = RUNNING
    /\ vehicle = RUNNING
    /\ result = "False"
    /\ Count("stop", "drone.py:212") = 1

(***************************************************************************)
(* C32 (as claimed): when USBL positioning is enabled and the fix          *)
(* acquisition fails, no mission is built or handed to the executor: a     *)
(* mission is handed over only after a fix was obtained and converted.     *)
(***************************************************************************)
C32_NoMissionWithoutFix ==
    (usbl_enabled /\ handed # NotHanded) =>
        /\ caller_fix \in Fixes
        /\ handed = HandedFrom(ConvertedStart(caller_fix))

\* no stop that was issued before disconnect reached the vehicle
NoStopReached ==
    /\ Count("stop", "gui.py:246") = 0
    /\ Count("stop", "drone.py:171") = 0 \/ fault = "stop"
    /\ Count("stop", "drone.py:212") = 0 \/ stop_failed

(***************************************************************************)
(* C36 (as claimed): after disconnect() returned True on a manager whose   *)
(* mission was started by run_mission, the vehicle is not left executing   *)
(* that mission, whatever the status query returned or raised.             *)
(***************************************************************************)
C36_StoppedBeforeClose ==
    (/\ disconnect_result = "True"
     /\ Count("run", "drone.py:163") = 1
     /\ NoStopReached)
        => vehicle # RUNNING

(***************************************************************************)
(* C37: the mission built by either strategy does not depend on the drone  *)
(* position: create_mission called with any other origin and the same      *)
(* target and configuration returns the same mission.                      *)
(***************************************************************************)
C37_OriginIndependent ==
    /\ BuiltThreeStage =>
          \A origin \in Positions :
              ThreeStageMission(origin, target_position, config) = mission
    /\ BuiltDirect =>
          \A origin \in Positions :
              DirectMission(origin, target_position, config) = mission

\* a mission built for a drone that is not at the target's coordinates
C37_Witness ==
    /\ BuiltThreeStage
    /\ drone_position.lat # target_position.lat
    /\ drone_position.lon # target_position.lon
    /\ mission.instructions[3].waypoint.latitude = target_position.lat
    /\ mission.instructions[3].waypoint.longitude = target_position.lon

C39_OneStartEntryFirst ==
    mission_data # <<>> =>
        /\ mission_data[1].event = "mission_start"
        /\ Cardinality({i \in DOMAIN mission_data :
                          mission_data[i].event = "mission_start"}) = 1

\* the log of a run started over an earlier one, with telemetry and its end
C39_Witness ==
    /\ discarded # <<>>
    /\ Len(mission_data) >= 3
    /\ mission_data[2].event = "telemetry"
    /\ mission_data[Len(mission_data)].event = "mission_end"

\* entries of a run that was started and has no end entry
Unended(entries) ==
    /\ entries # <<>>
    /\ \A i \in DOMAIN entries : entries[i].event # "mission_end"

(***************************************************************************)
(* C40: start_mission_logging called while an earlier run was started but  *)
(* not ended drops that run's start and telemetry entries and writes no    *)
(* file; a file is written by end_mission_logging only, and ends with the  *)
(* end entry.                                                              *)
(***************************************************************************)
C40_UnendedRunDiscarded ==
    /\ [][(/\ log_call'.op = "start_mission_logging"
           /\ log_now' = log_now
           /\ Unended(mission_data))
          => /\ files' = files
             /\ mission_data' = <<StartEntry(log_now)>>
             /\ discarded' = mission_data]_vars
    /\ [][files' # files
          => /\ log_call'.op = "end_mission_logging"
             /\ \E n \in log_call'.returned :
                  /\ files'[n] = mission_data'
                  /\ mission_data'[Len(mission_data')].event
                        = "mission_end"]_vars

\* a run with telemetry was started over; nothing of it was written
C40_Witness ==
    /\ log_call.op = "start_mission_logging"
    /\ Unended(discarded)
    /\ Len(discarded) >= 2
    /\ discarded[2].event = "telemetry"
    /\ files = <<>>
    /\ Len(mission_data) = 1

\* the entry log_telemetry appends for a callback invocation
EntryOf(tick) == TelemetryEntry(tick.state, tick.telemetry)

\* the start entry, one telemetry entry per invocation in order, the end entry
EntryPerTick ==
    <<StartEntry(mission_start_time)>>
        \o [i \in 1..Len(ticks) |-> EntryOf(ticks[i])]
        \o <<EndEntry(result, reason)>>

(***************************************************************************)
(* C31: in a mission run through execute_mission, every invocation of the  *)
(* telemetry callback appends exactly one telemetry entry, so that the     *)
(* persisted log holds the start entry, one telemetry entry per callback   *)
(* in callback order, and the end entry.                                   *)
(***************************************************************************)
C31_OneEntryPerTick ==
    (telemetry_callback = "log_telemetry" /\ Ended) =>
        /\ mission_data = EntryPerTick
        /\ \E n \in DOMAIN files : files[n] = EntryPerTick

=========================================================================
